---------------------------- MODULE Spec2Model ----------------------------
(***************************************************************************)
(* Model of the Epiphany debug server core (e-server/src/GdbServer.cpp)    *)
(* and of the host shared-memory manager (e-hal/src/epiphany-shm-manager.c)*)
(*                                                                         *)
(* The specifications of the module share its variables:                   *)
(*   SpecShm     the shared-memory manager run by several host processes   *)
(*   SpecGdb     the RSP dispatcher, its target and its matchpoint table   *)
(*   SpecTrap    the continue engine over every TRAP number                *)
(*   SpecReadMem, SpecXfer, SpecArgs, SpecDecode                           *)
(*               packet handlers and the step decoder over their inputs    *)
(***************************************************************************)
EXTENDS Integers, Sequences, FiniteSets, TLC

VARIABLES
  \* ---- shared-memory table (e_shmtable_t), one copy shared by all processes
  regions,           \* tbl->regions[i]: [name, size, offset, refcnt, valid]
  free_space,        \* tbl->free_space (unsigned int)
  next_free_offset,  \* tbl->next_free_offset (off_t, as wide as unsigned int)
  lock,              \* tbl->lock: the sem_t* value last stored by an e_shm_init
  \* ---- operating system: the named semaphore SHM_LOCK_NAME
  semName,           \* semaphore object the name is linked to (0: unlinked)
  semVal,            \* value of every semaphore object
  semNext,           \* next semaphore object sem_open will create
  \* ---- host processes
  proc,              \* per process: position in the running call and its locals
  nCalls,            \* calls issued so far (bounds the run)
  expected,          \* history: per region slot, 1 + attaches - releases
  \* ---- the debug target (one Epiphany core)
  mem,               \* target memory, one 16-bit opcode per even address
  pc,                \* the core's program counter
  halted,            \* the core is in the debug (halt) state
  \* ---- GdbServer
  mpHash,            \* matchpoint table: BP_MEMORY address -> saved opcode
  fIsTargetRunning,  \* the dispatcher's running flag
  connected,         \* an RSP client is connected
  alive,             \* the server process has not exited
  pktLive,           \* the packet buffer pkt has not been deleted
  replies,           \* packets sent since the last packet was received
  lastPkt,           \* history: kind of the last packet received
  pair,              \* history: a Z0 and the z0s that directly followed it
  dbg,               \* history: what the last handler did to the debug unit
  fioWrites,         \* history: the registers the last F packet had written
  ivt,               \* history: the vector entries the last step put breakpoints in
  \* ---- replies cut to size
  osProcessReply,    \* the osdata document kept between qXfer reads
  xfer,              \* history: the last qXfer read and its reply
  xferAcc,           \* history: what a client reading in sequence has got
  xferSeq,           \* history: where that client is: none, reading, done
  rdMem,             \* history: the last 'm' length and the bytes read for it
  stepDec,           \* history: the last instruction decoded for a step
  coreMem,           \* target memory by the byte, as readBurst and writeBurst see it
  argPkt             \* history: the last 'm', 'M', 'p' or 'P' packet, its answer, and (wr)
                     \* the 'M' that was served directly before an 'm'

shmVars == <<regions, free_space, next_free_offset, lock, semName, semVal,
             semNext, proc, nCalls, expected>>

gdbVars == <<mem, pc, halted, mpHash, fIsTargetRunning, connected, alive,
             pktLive, replies, lastPkt, pair, dbg, fioWrites, ivt>>

pktVars == <<osProcessReply, xfer, xferAcc, xferSeq, rdMem, stepDec,
             coreMem, argPkt>>

vars == <<shmVars, gdbVars, pktVars>>

(***************************************************************************)
(* Bounds of the shared-memory model                                       *)
(***************************************************************************)
NumProcs    == 2   \* host processes
MaxRegions  == 2   \* slots of tbl->regions (MAX_SHM_REGIONS, scaled down)
NumNames    == 2   \* distinct region names the callers use
MaxSize     == 2   \* largest size a caller asks for
HeapCap     == 2   \* heap capacity the driver puts in free_space
UintBits    == 2   \* width of the unsigned fields (32, scaled down)
MaxSems     == 2   \* semaphore objects the system may create
MaxCalls    == 5   \* calls issued in one run

Procs    == 1..NumProcs
Slots    == 1..MaxRegions
Names    == 1..NumNames
\* the addresses sem_open may return in a process: all that matters of a
\* stored pointer is whether it is the one the caller got itself
SemAddrs == {1, 2}
UintMod  == 2 ^ UintBits
\* sizeof(e_shmtable_t), in the units of the scaled heap
TableSize == 1

\* unsigned arithmetic of the C fields
USub(a, b) == (a - b + UintMod) % UintMod
UAdd(a, b) == (a + b) % UintMod

NoRegion == [name |-> 0, size |-> 0, offset |-> 0, refcnt |-> 0, valid |-> 0]

\* pc: "idle" outside a call, "cs" between sem_wait and sem_post, "dead"
\* op, name, size: the running call; idx, tmp: its locals (region, refcnt read)
\* mapped: shm_table is mapped; semAddr, semObj: what its sem_open returned
\* ret, err: what the last call returned and the errno it set
IdleProc == [pc |-> "idle", op |-> "none", name |-> 0, size |-> 0, idx |-> 0,
             tmp |-> 0, mapped |-> FALSE, semAddr |-> 0, semObj |-> 0,
             ret |-> "none", err |-> "none"]

\* The table as the Epiphany driver initialises it, no process attached.
InitShm ==
  /\ regions = [i \in Slots |-> NoRegion]
  /\ free_space = HeapCap
  /\ next_free_offset = 0
  /\ lock = 0
  /\ semName = 0
  /\ semVal = [s \in 1..MaxSems |-> 0]
  /\ semNext = 1
  /\ proc = [p \in Procs |-> IdleProc]
  /\ nCalls = 0
  /\ expected = [i \in Slots |-> 0]

\* shm_lookup_region: first valid region with that name, 0 when none
shm_lookup_region(name) ==
  IF \E i \in Slots : regions[i].valid # 0 /\ regions[i].name = name
  THEN CHOOSE i \in Slots :
         /\ regions[i].valid # 0 /\ regions[i].name = name
         /\ \A j \in Slots : (regions[j].valid # 0 /\ regions[j].name = name) => i <= j
  ELSE 0

\* shm_alloc_region's scan: first slot whose valid flag is 0, 0 when none
FirstFreeSlot ==
  IF \E i \in Slots : regions[i].valid = 0
  THEN CHOOSE i \in Slots :
         regions[i].valid = 0 /\ \A j \in Slots : regions[j].valid = 0 => i <= j
  ELSE 0

\* The semaphore a process reaches through the pointer stored in tbl->lock:
\* its own mapping when the stored address is the one its sem_open returned,
\* 0 (no semaphore there) otherwise.
SemOf(p) ==
  IF lock # 0 /\ proc[p].semAddr = lock THEN proc[p].semObj ELSE 0

\* the processes between sem_wait and sem_post
InCritical(p) == proc[p].pc = "cs"

\* What every call leaves alone unless it says otherwise.
TableUnchanged == UNCHANGED <<regions, free_space, next_free_offset, expected>>
SemsUnchanged  == UNCHANGED <<semName, semVal, semNext>>

(***************************************************************************)
(* e_shm_init: map the table, then                                         *)
(*   shm_table->lock = sem_open(SHM_LOCK_NAME, O_CREAT, sem_perms, 1)      *)
(* The semaphore is created with value 1 when the name is not linked, and  *)
(* opened otherwise.  The address sem_open returns belongs to the calling  *)
(* process; it is stored in the table every process shares.                *)
(***************************************************************************)
e_shm_init(p, a) ==
  /\ proc[p].pc = "idle" /\ ~proc[p].mapped
  /\ nCalls < MaxCalls
  /\ IF semName # 0 THEN TRUE ELSE semNext <= MaxSems
  /\ LET s == IF semName # 0 THEN semName ELSE semNext IN
       /\ semName' = s
       /\ semNext' = IF semName # 0 THEN semNext ELSE semNext + 1
       /\ semVal' = IF semName # 0 THEN semVal ELSE [semVal EXCEPT ![s] = 1]
       /\ lock' = a
       /\ proc' = [proc EXCEPT ![p].mapped = TRUE, ![p].semAddr = a,
                               ![p].semObj = s, ![p].ret = "E_OK",
                               ![p].err = "none"]
  /\ nCalls' = nCalls + 1
  /\ TableUnchanged
  /\ UNCHANGED <<gdbVars, pktVars>>

(***************************************************************************)
(* e_shm_finalize: sem_unlink(SHM_LOCK_NAME); sem_close(shm_table->lock);  *)
(* munmap.  sem_close is handed the pointer found in the table, which is   *)
(* the caller's own only if no other process has called e_shm_init since;  *)
(* either way the caller has no usable semaphore or table afterwards.      *)
(***************************************************************************)
e_shm_finalize(p) ==
  /\ proc[p].pc = "idle" /\ proc[p].mapped
  /\ nCalls < MaxCalls
  /\ semName' = 0
  /\ proc' = [proc EXCEPT ![p].mapped = FALSE, ![p].semAddr = 0,
                          ![p].semObj = 0, ![p].ret = "none",
                          ![p].err = "none"]
  /\ nCalls' = nCalls + 1
  /\ UNCHANGED <<semVal, semNext, lock>>
  /\ TableUnchanged
  /\ UNCHANGED <<gdbVars, pktVars>>

(***************************************************************************)
(* sem_wait(tbl->lock).  Through its own pointer the caller blocks until   *)
(* the semaphore is positive and takes it.  Through a pointer another      *)
(* process stored, there is no semaphore at that address in the caller:    *)
(* the call fails (its result is not looked at) and the caller goes on, or *)
(* the access faults and the process dies.                                 *)
(* A blocked caller does nothing, so the call is taken when it can go on.  *)
(***************************************************************************)
sem_wait_ok(p) == IF SemOf(p) = 0 THEN TRUE ELSE semVal[SemOf(p)] > 0

sem_wait(p) ==
  IF SemOf(p) # 0 THEN [semVal EXCEPT ![SemOf(p)] = @ - 1] ELSE semVal

\* sem_post(tbl->lock): a pointer that is not the caller's reaches no
\* semaphore and posts nothing.
sem_post(p) ==
  IF SemOf(p) # 0 THEN [semVal EXCEPT ![SemOf(p)] = @ + 1] ELSE semVal

\* The caller may start a call: it is outside any call and has the table.
CanCall(p) == proc[p].pc = "idle" /\ proc[p].mapped /\ nCalls < MaxCalls

\* sem_wait through a pointer that is not the caller's may also fault.
sem_wait_fault(p) ==
  /\ CanCall(p)
  /\ SemOf(p) = 0
  /\ proc' = [proc EXCEPT ![p].pc = "dead"]
  /\ nCalls' = nCalls + 1
  /\ UNCHANGED lock /\ SemsUnchanged /\ TableUnchanged
  /\ UNCHANGED <<gdbVars, pktVars>>

\* e_shm_alloc lines 129-132: a null name or a zero size is refused before
\* the table is touched.
e_shm_alloc_einval(p) ==
  /\ CanCall(p)
  /\ proc' = [proc EXCEPT ![p].ret = "NULL", ![p].err = "EINVAL"]
  /\ nCalls' = nCalls + 1
  /\ UNCHANGED lock /\ SemsUnchanged /\ TableUnchanged
  /\ UNCHANGED <<gdbVars, pktVars>>

\* e_shm_alloc lines 134-157: sem_wait, then the EEXIST and ENOMEM checks.
\* shm_compact_heap is empty, so the second size test repeats the first.
e_shm_alloc_enter(p, n, sz) ==
  /\ CanCall(p) /\ sz > 0
  /\ sem_wait_ok(p)
  /\ semVal' = sem_wait(p)
  /\ proc' = [proc EXCEPT ![p] =
       [@ EXCEPT !.pc = "cs", !.op = "alloc", !.name = n, !.size = sz,
                 !.ret = "NULL",
                 !.err = IF shm_lookup_region(n) # 0 THEN "EEXIST"
                         ELSE IF sz > free_space THEN "ENOMEM"
                         ELSE "none"]]
  /\ nCalls' = nCalls + 1
  /\ UNCHANGED <<semName, semNext, lock>> /\ TableUnchanged
  /\ UNCHANGED <<gdbVars, pktVars>>

\* shm_alloc_region (lines 251-298) with e_shm_alloc lines 159-164: the
\* table after the region is handed out from slot i, the first slot that is
\* not valid.
shm_alloc_region(i, name, size) ==
  [regs |-> [regions EXCEPT ![i] =
               [name   |-> name,
                size   |-> size,
                offset |-> TableSize + next_free_offset,
                refcnt |-> 1,
                valid  |-> 1]],
   free |-> USub(free_space, size),
   next |-> UAdd(next_free_offset, size)]

\* e_shm_alloc lines 159-170: allocate unless a check failed, sem_post, return
e_shm_alloc_exit(p) ==
  /\ proc[p].pc = "cs" /\ proc[p].op = "alloc"
  /\ LET i == FirstFreeSlot IN
       IF proc[p].err # "none" \/ i = 0
       THEN /\ proc' = [proc EXCEPT ![p].pc = "idle", ![p].op = "none",
                                    ![p].name = 0, ![p].size = 0]
            /\ TableUnchanged
       ELSE LET t == shm_alloc_region(i, proc[p].name, proc[p].size) IN
            /\ regions' = t.regs
            /\ free_space' = t.free
            /\ next_free_offset' = t.next
            /\ expected' = [expected EXCEPT ![i] = 1]
            /\ proc' = [proc EXCEPT ![p].pc = "idle", ![p].op = "none",
                                    ![p].name = 0, ![p].size = 0,
                                    ![p].ret = "region"]
  /\ semVal' = sem_post(p)
  /\ UNCHANGED <<semName, semNext, lock, nCalls>>
  /\ UNCHANGED <<gdbVars, pktVars>>

\* e_shm_attach lines 179-182: sem_wait, the lookup, and the read half of
\* ++region->refcnt
e_shm_attach_enter(p, n) ==
  /\ CanCall(p)
  /\ sem_wait_ok(p)
  /\ semVal' = sem_wait(p)
  /\ LET i == shm_lookup_region(n) IN
       proc' = [proc EXCEPT ![p] =
         [@ EXCEPT !.pc = "cs", !.op = "attach", !.name = n, !.idx = i,
                   !.tmp = IF i = 0 THEN 0 ELSE regions[i].refcnt,
                   !.ret = "NULL", !.err = "none"]]
  /\ nCalls' = nCalls + 1
  /\ UNCHANGED <<semName, semNext, lock>> /\ TableUnchanged
  /\ UNCHANGED <<gdbVars, pktVars>>

\* e_shm_attach lines 182-188: the write half of ++region->refcnt, sem_post
e_shm_attach_exit(p) ==
  /\ proc[p].pc = "cs" /\ proc[p].op = "attach"
  /\ LET i == proc[p].idx IN
       IF i = 0
       THEN /\ proc' = [proc EXCEPT ![p].pc = "idle", ![p].op = "none",
                                    ![p].name = 0]
            /\ UNCHANGED <<regions, expected>>
       ELSE /\ regions' = [regions EXCEPT ![i].refcnt = UAdd(proc[p].tmp, 1)]
            /\ expected' = [expected EXCEPT ![i] = @ + 1]
            /\ proc' = [proc EXCEPT ![p].pc = "idle", ![p].op = "none",
                                    ![p].name = 0, ![p].idx = 0, ![p].tmp = 0,
                                    ![p].ret = "region"]
  /\ semVal' = sem_post(p)
  /\ UNCHANGED <<free_space, next_free_offset, semName, semNext, lock, nCalls>>
  /\ UNCHANGED <<gdbVars, pktVars>>

\* e_shm_release lines 197-202: sem_wait, the lookup, and the read half of
\* --region->refcnt
e_shm_release_enter(p, n) ==
  /\ CanCall(p)
  /\ sem_wait_ok(p)
  /\ semVal' = sem_wait(p)
  /\ LET i == shm_lookup_region(n) IN
       proc' = [proc EXCEPT ![p] =
         [@ EXCEPT !.pc = "cs", !.op = "release", !.name = n, !.idx = i,
                   !.tmp = IF i = 0 THEN 0 ELSE regions[i].refcnt,
                   !.ret = "E_ERR", !.err = "none"]]
  /\ nCalls' = nCalls + 1
  /\ UNCHANGED <<semName, semNext, lock>> /\ TableUnchanged
  /\ UNCHANGED <<gdbVars, pktVars>>

\* the free_space a release that drops the last reference leaves (line 204)
ReleasedFreeSpace(fs, size) == USub(fs, size)

\* e_shm_release lines 202-211: the write half of --region->refcnt, the
\* last reference's bookkeeping, sem_post
e_shm_release_exit(p) ==
  /\ proc[p].pc = "cs" /\ proc[p].op = "release"
  /\ LET i == proc[p].idx
         n == USub(proc[p].tmp, 1)
     IN
       IF i = 0
       THEN /\ proc' = [proc EXCEPT ![p].pc = "idle", ![p].op = "none",
                                    ![p].name = 0]
            /\ UNCHANGED <<regions, free_space, expected>>
       ELSE /\ regions' = [regions EXCEPT ![i].refcnt = n,
                                          ![i].valid = IF n = 0 THEN 0 ELSE @]
            /\ free_space' = IF n = 0
                             THEN ReleasedFreeSpace(free_space, regions[i].size)
                             ELSE free_space
            /\ expected' = [expected EXCEPT ![i] = @ - 1]
            /\ proc' = [proc EXCEPT ![p].pc = "idle", ![p].op = "none",
                                    ![p].name = 0, ![p].idx = 0, ![p].tmp = 0,
                                    ![p].ret = "E_OK"]
  /\ semVal' = sem_post(p)
  /\ UNCHANGED <<next_free_offset, semName, semNext, lock, nCalls>>
  /\ UNCHANGED <<gdbVars, pktVars>>

NextShm ==
  \E p \in Procs :
    \/ \E a \in SemAddrs : e_shm_init(p, a)
    \/ e_shm_finalize(p)
    \/ sem_wait_fault(p)
    \/ e_shm_alloc_einval(p)
    \/ \E n \in Names, sz \in 1..MaxSize : e_shm_alloc_enter(p, n, sz)
    \/ e_shm_alloc_exit(p)
    \/ \E n \in Names : e_shm_attach_enter(p, n)
    \/ e_shm_attach_exit(p)
    \/ \E n \in Names : e_shm_release_enter(p, n)
    \/ e_shm_release_exit(p)

(***************************************************************************)
(* The debug server: bounds, the target, the instruction decoding          *)
(***************************************************************************)
AddrBits == 4                  \* width of a target address (32, scaled down)
WordBits == 28                 \* width of uint32_t in the step engine (scaled down)
ATDSP_NUM_ENTRIES_IN_IVT == 2  \* entries of the interrupt vector table
ScanBytes == 6                 \* rspContinue's look-back for a trap (20 bytes)

AddrMod == 2 ^ AddrBits
Addrs   == {a \in 0 .. AddrMod - 1 : a % 2 = 0}

\* unsigned address arithmetic (uint32_t, scaled)
AAdd(a, d) == (a + d) % AddrMod
ASub(a, d) == (a - d + AddrMod) % AddrMod
\* a signed long turned back into an address
AWrap(x) == ((x % AddrMod) + AddrMod) % AddrMod

\* opcodes of GdbServer.h
ATDSP_BKPT_INSTR == 450        \* 0x01C2
ATDSP_NOP_INSTR  == 418        \* 0x01A2
IDLE_OPCODE      == 434        \* 0x01B2
ATDSP_TRAP_INSTR == 994        \* 0x03E2
\* TRAP n: the trap number sits in bits 15..10
TrapInstr(n) == ATDSP_TRAP_INSTR + n * 1024

\* getfield(x, lt, rt): bits lt..rt of x
getfield(x, lt, rt) == (x % (2 ^ (lt + 1))) \div (2 ^ rt)

\* an is32BitsInstr that takes no branch for a long instruction
is32BitsInstr_noBranch(iab_instr) ==
  \/ getfield(iab_instr, 3, 0) = 15
  \/ getfield(iab_instr, 2, 0) = 3 /\ getfield(iab_instr, 3, 3) = 1
  \/ /\ getfield(iab_instr, 2, 0) = 4 \/ getfield(iab_instr, 1, 0) = 1
     /\ getfield(iab_instr, 3, 3) = 1

\* is32BitsInstr
is32BitsInstr(iab_instr) ==
  LET de_extended_instr == getfield(iab_instr, 3, 0) = 15
      de_regi     == getfield(iab_instr, 2, 0) = 3
      de_regi_long == de_regi /\ getfield(iab_instr, 3, 3) = 1
      de_loadstore == getfield(iab_instr, 2, 0) = 4
                        \/ getfield(iab_instr, 1, 0) = 1
      de_loadstore_long == de_loadstore /\ getfield(iab_instr, 3, 3) = 1
      de_branch   == getfield(iab_instr, 2, 0) = 0
      de_branch_long_sel == de_branch /\ getfield(iab_instr, 3, 3) = 1
  IN de_extended_instr \/ de_loadstore_long \/ de_regi_long
       \/ de_branch_long_sel

\* uint32_t arithmetic of the step engine, at a width the checker's integers
\* hold with room for a sum
WordMod == 2 ^ WordBits

\* setfield(x, lt, rt, val): bits lt..rt of the word x replaced by val; what
\* the shift moves above the word is lost
setfield(x, lt, rt, val) ==
  LET top == IF lt + 1 > WordBits THEN WordBits ELSE lt + 1
      field == (x % (2 ^ top)) \div (2 ^ rt)
      shifted == (val % (2 ^ (WordBits - rt))) * (2 ^ rt)
  IN (x - field * (2 ^ rt) + shifted) % WordMod

\* a displacement that is not sign extended
branchImmExt_unsigned(instrOpcode, instrExt, is32) ==
  LET imm8 == setfield(0, 7, 0, getfield(instrOpcode, 15, 8))
  IN IF is32 THEN setfield(imm8, 23, 8, getfield(instrExt, 15, 0)) ELSE imm8

\* rspStep lines 3051-3067: the displacement of an immediate branch, sign
\* extended by filling the bits above it
branchImmExt(instrOpcode, instrExt, is32) ==
  LET imm8 == setfield(0, 7, 0, getfield(instrOpcode, 15, 8))
      imm24 == setfield(imm8, 23, 8, getfield(instrExt, 15, 0))
  IN IF is32
     THEN (IF getfield(imm24, 23, 23) = 1
           THEN setfield(imm24, 31, 24, 255) ELSE imm24)
     ELSE (IF getfield(imm8, 7, 7) = 1
           THEN setfield(imm8, 31, 8, 16777215) ELSE imm8)

\* rspStep lines 3023-3102: the sequential breakpoint address and the address
\* of the change of flow, for the instruction instrOpcode, instrExt at pc_;
\* iret is the IRET register and gpr the general registers
stepBreakpoints(pc_, instrOpcode, instrExt, iret, gpr) ==
  LET is32 == is32BitsInstr(instrOpcode)
      bkpt_addr == (pc_ + 2 + (IF is32 THEN 2 ELSE 0)) % WordMod
      immExt == branchImmExt(instrOpcode, instrExt, is32)
      jAddr == (((pc_ + immExt) % WordMod) + immExt) % WordMod
      low9 == getfield(instrOpcode, 8, 0)
      byValue == IF getfield(instrOpcode, 2, 0) = 0 THEN jAddr ELSE bkpt_addr
      rti == IF low9 = 466 THEN iret ELSE byValue
      regShortNum == getfield(instrOpcode, 12, 10)
      jr16 == IF low9 \in {322, 338} THEN gpr[regShortNum] ELSE rti
      regLongNum == getfield(instrExt, 12, 10) * 8
                      + getfield(instrOpcode, 12, 10)
      jr32 == IF low9 \in {335, 351} THEN gpr[regLongNum] ELSE jr16
  IN [is32 |-> is32, bkpt_addr |-> bkpt_addr, bkpt_jump_addr |-> jr32]

\* the program in target memory, from address 0 upwards, a halfword each:
\*   0 IDLE   2 NOP   4 TRAP 7   6 TRAP 8   8 MOV (0x2003)
\*  10 BEQ +2 halfwords (0x0200)   12 TRAP 0   14 TRAP 3
\* and NOP everywhere above
Program == <<IDLE_OPCODE, ATDSP_NOP_INSTR, TrapInstr(7), TrapInstr(8),
             8195, 512, TrapInstr(0), TrapInstr(3)>>

InitialMem ==
  [a \in Addrs |-> IF a \div 2 < Len(Program) THEN Program[a \div 2 + 1]
                   ELSE ATDSP_NOP_INSTR]

\* what a client writes with M or X, and what an uninitialised uint16_t may
\* hold: 0x001F, a 32-bit instruction that is no branch
SampleOpcodes == {31}

\* addresses the client sets breakpoints at and writes to
BpAddrs == {10, 14}
\* addresses the client resumes from and writes into the PC
StepAddrs == {8, 10}
\* the types a Z or z packet names: BP_MEMORY, BP_HARDWARE (answered like the
\* three watchpoint types), and one that is no type
BP_MEMORY == 0
MpTypes == {0, 1, 5}

\* interrupt vector table: entry i is at i * ATDSP_INST32LEN; entry 0 is reset
IvtEntries == {4 * i : i \in 1 .. ATDSP_NUM_ENTRIES_IN_IVT - 1}
IvtAddrs   == {a \in Addrs : a < 4 * ATDSP_NUM_ENTRIES_IN_IVT}

\* a poll that finds the core still running
NoHalt == AddrMod

(***************************************************************************)
(* MpHash, the matchpoint table.  Only BP_MEMORY entries are ever added,   *)
(* so the table is a function from addresses to saved opcodes.             *)
(***************************************************************************)
EmptyTable == [a \in {} |-> 0]
MpHash_lookup(t, a) == a \in DOMAIN t
\* add keeps an entry that is already there
MpHash_add(t, a, instr) == IF a \in DOMAIN t THEN t ELSE t @@ (a :> instr)
MpHash_remove(t, a) == [x \in DOMAIN t \ {a} |-> t[x]]

\* TargetControl::writeMem16
writeMem16(m, a, v) == [m EXCEPT ![a] = v]
\* putBreakPointInstruction
putBreakPointInstruction(m, bkpt_addr) ==
  writeMem16(m, bkpt_addr, ATDSP_BKPT_INSTR)

\* what a step did about interrupts: isr, the core had interrupts enabled
\* and one that is not masked latched; entries, the vector entries that got
\* a breakpoint while the core ran
NoIvt == [stepped |-> FALSE, isr |-> FALSE, entries |-> {}]

\* a memory without a breakpoint, to see where a loop writes one
NoBkpts == [a \in Addrs |-> ATDSP_NOP_INSTR]

\* a saveIVT that is called after the breakpoints are in place
saveIVT_late(m) == [a \in IvtAddrs |-> IF a \in IvtEntries
                                       THEN ATDSP_BKPT_INSTR ELSE m[a]]

\* saveIVT / restoreIVT: one burst over the whole table
saveIVT(m) == [a \in IvtAddrs |-> m[a]]
restoreIVT(m, fIVTSaveBuff) ==
  [a \in Addrs |-> IF a \in IvtAddrs THEN fIVTSaveBuff[a] ELSE m[a]]
\* rspStep's loop over the vector entries, skipping the one the PC is at
PlantIvt(m, pc_) ==
  [a \in Addrs |-> IF a \in IvtEntries /\ a # pc_ THEN ATDSP_BKPT_INSTR
                   ELSE m[a]]
\* the IDLE path's loop, which skips none
PlantIvtAll(m) ==
  [a \in Addrs |-> IF a \in IvtEntries THEN ATDSP_BKPT_INSTR ELSE m[a]]

\* what a handler does to the core's debug unit, in order: "HALT" and "RUN"
\* are the values written to DEBUGCMD, "wait" a spin on DEBUG that ends only
\* when the core halts
\* a targetResume that writes the command twice
targetResume_twice(ops) == Append(Append(ops, "RUN"), "RUN")
targetResume(ops) == Append(ops, "RUN")
\* a targetHalt that leaves DEBUGCMD alone
targetHalt_skipped(ops) == ops
targetHalt(ops) == Append(ops, "HALT")
WaitForHalt(ops) == Append(ops, "wait")
\* the look at IMASK and ILAT for a pending interrupt
readIlat(ops) == Append(ops, "ILAT")

\* a register rspFileIOreply did not write
NotWritten == -1
NoWrites == [r0 |-> NotWritten, r3 |-> NotWritten]
\* the return code and the error code an F packet carries
FioResults == {5}
FioErrors == {4}

NoPair == [stage |-> 0, a |-> 0, v |-> 0, tbl |-> EmptyTable, ok |-> TRUE,
           r1 |-> "none", r2 |-> "none"]

\* The server before a client connects: the core runs the program, the
\* table is empty.
InitGdb ==
  /\ mem = InitialMem
  /\ pc = 8
  /\ halted = FALSE
  /\ mpHash = EmptyTable
  /\ fIsTargetRunning = FALSE
  /\ connected = FALSE
  /\ alive = TRUE
  /\ pktLive = TRUE
  /\ replies = <<>>
  /\ lastPkt = "none"
  /\ pair = NoPair
  /\ dbg = <<>>
  /\ fioWrites = NoWrites
  /\ ivt = NoIvt

(***************************************************************************)
(* Sending                                                                 *)
(*   reply kinds: "OK", "E01", "empty", "data", the stop packets "S05"...,  *)
(*   "F" (File-I/O request), "stale" (the buffer as the client filled it)  *)
(***************************************************************************)
\* GDB's signal numbers (TARGET_SIGNAL_*)
TARGET_SIGNAL_HUP  == 1
TARGET_SIGNAL_QUIT == 3
TARGET_SIGNAL_ILL  == 4
TARGET_SIGNAL_TRAP == 5
TARGET_SIGNAL_ABRT == 6
TARGET_SIGNAL_FPE  == 8
TARGET_SIGNAL_BUS  == 10
Signals == {TARGET_SIGNAL_HUP, TARGET_SIGNAL_QUIT, TARGET_SIGNAL_ILL,
            TARGET_SIGNAL_TRAP, TARGET_SIGNAL_ABRT, TARGET_SIGNAL_FPE,
            TARGET_SIGNAL_BUS}

\* the exception field STATUS[18:16] of the core
E_UNALIGMENT_LS == 2
E_FPU           == 3
E_UNIMPL        == 4
\* the values of the field, three bits wide
ExStats == 0 .. 7

\* an isTargetExceptionState that tells no exception from another
isTargetExceptionState_abrt(exStat, exCause) ==
  IF exStat = 0 THEN exCause ELSE TARGET_SIGNAL_ABRT

\* isTargetExceptionState: the signal it leaves in exCause, which it does
\* not touch when the field is 0
isTargetExceptionState(exStat, exCause) ==
  CASE exStat = 0 -> exCause
    [] exStat = E_UNALIGMENT_LS -> TARGET_SIGNAL_BUS
    [] exStat = E_FPU -> TARGET_SIGNAL_FPE
    [] exStat = E_UNIMPL -> TARGET_SIGNAL_ILL
    [] OTHER -> TARGET_SIGNAL_ABRT

\* a stop packet that says SIGHUP whatever the cause
StopPacket_hup(exCause) == "S01"

\* the stop packet rspReportException builds for thread 0: 'S' and the
\* signal as two hex digits
StopPacket(exCause) ==
  CASE exCause = TARGET_SIGNAL_HUP -> "S01"
    [] exCause = TARGET_SIGNAL_QUIT -> "S03"
    [] exCause = TARGET_SIGNAL_ILL -> "S04"
    [] exCause = TARGET_SIGNAL_TRAP -> "S05"
    [] exCause = TARGET_SIGNAL_ABRT -> "S06"
    [] exCause = TARGET_SIGNAL_FPE -> "S08"
    [] exCause = TARGET_SIGNAL_BUS -> "S0a"

\* a rspReportException that leaves the flag set
rspReportException_running(sent, exCause) ==
  [sent |-> Append(sent, StopPacket(exCause)), running |-> TRUE]

\* rspReportException: send the stop packet, then clear the running flag
rspReportException(sent, exCause) ==
  [sent |-> Append(sent, StopPacket(exCause)), running |-> FALSE]

\* how trap 7 is served: "tty" on the server's terminal; through gdb with
\* r3 holding a SUBFUN the switch has a case for ("gdb") or not ("other")
Stdio == {"tty", "gdb", "other"}

\* a redirectSdioOnTrap that reports QUIT for every trap
redirectSdioOnTrap_quit(sent, trapNumber, stdio) ==
  [sent |-> Append(sent, "S03"), running |-> FALSE]

\* redirectSdioOnTrap(trapNumber): what is sent and whether the core is
\* resumed
redirectSdioOnTrap(sent, trapNumber, stdio) ==
  CASE trapNumber \in {0, 1, 2, 6} ->
         [sent |-> Append(sent, "F"), running |-> FALSE]
    [] trapNumber \in {3, 5} -> rspReportException(sent, TARGET_SIGNAL_QUIT)
    [] trapNumber = 4 -> rspReportException(sent, TARGET_SIGNAL_TRAP)
    [] trapNumber = 7 ->
         IF stdio = "tty" THEN [sent |-> sent, running |-> TRUE]
         ELSE [sent |-> Append(sent, IF stdio = "gdb" THEN "F" ELSE "stale"),
               running |-> FALSE]
    [] OTHER -> [sent |-> sent, running |-> FALSE]

\* the stdio input is read only by trap 7
IsTrap7(instr) ==
  getfield(instr, 9, 0) = ATDSP_TRAP_INSTR /\ getfield(instr, 15, 10) = 7

\* rspContinue's look-back (lines 700-716): the opcode the loop ends with
RECURSIVE ScanBack(_, _, _)
ScanBack(m, j, lim) ==
  IF j > lim
  THEN IF getfield(m[j], 9, 0) = ATDSP_TRAP_INSTR THEN m[j]
       ELSE ScanBack(m, ASub(j, 2), lim)
  ELSE ATDSP_NOP_INSTR

\* valueOfStoppedInstr once the look-back is done, the core halted with PC p
StoppedInstr(p) ==
  LET prevPc == ASub(p, 2)
      val == mem[prevPc]
  IN IF getfield(val, 9, 0) = ATDSP_TRAP_INSTR THEN val
     ELSE IF val = ATDSP_NOP_INSTR
          THEN ScanBack(mem, ASub(prevPc, 2), ASub(prevPc, ScanBytes))
          ELSE val

\* ContinueHalted without the write of the PC
ContinueHalted_noRewind(sent, p, stdio) ==
  LET prevPc == ASub(p, 2)
      val == mem[prevPc]
      seen == StoppedInstr(p)
  IN IF val = ATDSP_BKPT_INSTR
     THEN [pc |-> p] @@ rspReportException(sent, TARGET_SIGNAL_TRAP)
     ELSE IF getfield(seen, 9, 0) = ATDSP_TRAP_INSTR
          THEN [pc |-> p]
                 @@ redirectSdioOnTrap(sent, getfield(seen, 15, 10), stdio)
          ELSE [pc |-> p] @@ rspReportException(sent, TARGET_SIGNAL_TRAP)

\* rspContinue (lines 650-760) once the core is found halted with PC p:
\* the PC it leaves, what it sends, whether the core runs on
ContinueHalted(sent, p, stdio) ==
  LET prevPc == ASub(p, 2)
      val == mem[prevPc]
      seen == StoppedInstr(p)
  IN IF val = ATDSP_BKPT_INSTR
     THEN [pc |-> IF MpHash_lookup(mpHash, prevPc) THEN prevPc ELSE p]
            @@ rspReportException(sent, TARGET_SIGNAL_TRAP)
     ELSE IF getfield(seen, 9, 0) = ATDSP_TRAP_INSTR
          THEN [pc |-> p]
                 @@ redirectSdioOnTrap(sent, getfield(seen, 15, 10), stdio)
          ELSE [pc |-> p] @@ rspReportException(sent, TARGET_SIGNAL_TRAP)

(***************************************************************************)
(* rspServer and rspClientRequest                                          *)
(***************************************************************************)
\* a dispatcher that reads packets while the core runs
GetPkt_running == alive /\ connected /\ pktLive

\* rsp->getPkt(pkt) can return a packet: the dispatcher is in rspClientRequest
GetPkt == alive /\ connected /\ ~fIsTargetRunning /\ pktLive

\* what a handler that only answers leaves alone
TargetUnchanged == UNCHANGED <<mem, pc, halted>>
ServerUnchanged == UNCHANGED <<mpHash, fIsTargetRunning, connected, alive,
                               pktLive>>

\* the handler sends rs and returns, having done ops on the core's debug
\* unit and put breakpoints in the vector entries recorded in entries; kind is "command", "malformed" for a packet the handler's sscanf
\* does not convert, or "resume" for the packets that resume the core or
\* belong to a File-I/O round trip
HandledStep(rs, kind, ops, entries) ==
  /\ replies' = rs
  /\ lastPkt' = kind
  /\ pair' = NoPair
  /\ dbg' = ops
  /\ fioWrites' = NoWrites
  /\ ivt' = entries
  /\ UNCHANGED <<shmVars, pktVars>>

\* a handler that is no step
HandledDbg(rs, kind, ops) == HandledStep(rs, kind, ops, NoIvt)

\* a handler that leaves the debug unit alone
Handled(rs, kind) == HandledDbg(rs, kind, <<>>)

\* the kind of a packet by what sscanf made of it
Parsed(parsed) == IF parsed THEN "command" ELSE "malformed"

\* an rspServer that starts every session with an empty table
rspServer_connect_fresh(attach, ok, p) ==
  /\ alive /\ ~connected
  /\ IF attach /\ ~halted THEN (IF ok THEN TRUE ELSE p = pc)
     ELSE ok /\ p = pc
  /\ connected' = TRUE
  /\ halted' = IF attach THEN ok ELSE halted
  /\ pc' = p
  /\ replies' = IF ok THEN <<>>
                ELSE rspReportException(<<>>, TARGET_SIGNAL_HUP).sent
  /\ fIsTargetRunning' =
       IF ok THEN fIsTargetRunning
       ELSE rspReportException(<<>>, TARGET_SIGNAL_HUP).running
  /\ lastPkt' = "none"
  /\ pair' = NoPair
  /\ dbg' = IF attach THEN targetHalt(<<>>) ELSE <<>>
  /\ fioWrites' = NoWrites
  /\ ivt' = NoIvt
  /\ mpHash' = EmptyTable
  /\ UNCHANGED <<mem, alive, pktLive>>
  /\ UNCHANGED <<shmVars, pktVars>>

\* rspServer lines 140-160: wait for a client; rspAttach when the server
\* was started with halt-on-attach.  targetHalt leaves the core halted at p,
\* or fails, and then rspAttach reports SIGHUP.
rspServer_connect(attach, ok, p) ==
  /\ alive /\ ~connected
  /\ IF attach /\ ~halted THEN (IF ok THEN TRUE ELSE p = pc)
     ELSE ok /\ p = pc
  /\ connected' = TRUE
  /\ halted' = IF attach THEN ok ELSE halted
  /\ pc' = p
  /\ replies' = IF ok THEN <<>>
                ELSE rspReportException(<<>>, TARGET_SIGNAL_HUP).sent
  /\ fIsTargetRunning' =
       IF ok THEN fIsTargetRunning
       ELSE rspReportException(<<>>, TARGET_SIGNAL_HUP).running
  /\ lastPkt' = "none"
  /\ pair' = NoPair
  /\ dbg' = IF attach THEN targetHalt(<<>>) ELSE <<>>
  /\ fioWrites' = NoWrites
  /\ ivt' = NoIvt
  /\ UNCHANGED <<mem, mpHash, alive, pktLive>>
  /\ UNCHANGED <<shmVars, pktVars>>

\* rspClientRequest lines 208-213: getPkt fails, rspClose
rspClientRequest_close ==
  /\ GetPkt
  /\ connected' = FALSE
  /\ pair' = NoPair
  /\ UNCHANGED <<mem, pc, halted, mpHash, fIsTargetRunning, alive, pktLive,
                 replies, lastPkt, dbg, fioWrites, ivt>>
  /\ UNCHANGED <<shmVars, pktVars>>

\* getPkt with the packet buffer rspSet has deleted: the process dies, or
\* the freed buffer still serves
rspClientRequest_freed(dies) ==
  /\ alive /\ connected /\ ~fIsTargetRunning /\ ~pktLive
  /\ alive' = ~dies
  /\ pktLive' = ~dies
  /\ pair' = NoPair
  /\ UNCHANGED <<mem, pc, halted, mpHash, fIsTargetRunning, connected,
                 replies, lastPkt, dbg, fioWrites, ivt>>
  /\ UNCHANGED <<shmVars, pktVars>>

\* '!' answers "", 'A' answers E01, 'T' answers OK
rspClientRequest_answer(r) ==
  /\ GetPkt
  /\ Handled(<<r>>, "command")
  /\ TargetUnchanged /\ ServerUnchanged

\* 'b', 'B', 'd', 'i', 'I', 'r', 't' and the default case: a warning on
\* stderr, nothing sent
rspClientRequest_ignored ==
  /\ GetPkt
  /\ Handled(<<>>, "command")
  /\ TargetUnchanged /\ ServerUnchanged

\* '?': rspReportException (0, 0, TARGET_SIGNAL_TRAP)
rspClientRequest_status ==
  /\ GetPkt
  /\ Handled(rspReportException(<<>>, TARGET_SIGNAL_TRAP).sent, "command")
  /\ fIsTargetRunning' = rspReportException(<<>>, TARGET_SIGNAL_TRAP).running
  /\ TargetUnchanged
  /\ UNCHANGED <<mpHash, connected, alive, pktLive>>

\* 'D': OK, rspClose
rspClientRequest_detach ==
  /\ GetPkt
  /\ Handled(<<"OK">>, "command")
  /\ connected' = FALSE
  /\ TargetUnchanged
  /\ UNCHANGED <<mpHash, fIsTargetRunning, alive, pktLive>>

\* an rspFileIOreply with the two registers exchanged
rspFileIOreply_swapped(fields, result_io, host_respond_error_code) ==
  [r0 |-> IF fields = 2 THEN host_respond_error_code ELSE NotWritten,
   r3 |-> IF fields >= 1 THEN result_io ELSE NotWritten]

\* rspFileIOreply: the registers written for an F packet of which sscanf
\* converted fields values: the return code into r0 and, when there are two,
\* the error code into r3
rspFileIOreply(fields, result_io, host_respond_error_code) ==
  [r0 |-> IF fields >= 1 THEN result_io ELSE NotWritten,
   r3 |-> IF fields = 2 THEN host_respond_error_code ELSE NotWritten]

\* 'F': rspFileIOreply, then targetResume.  ctrlC says whether the packet
\* carries the ",C" flag after its error code; neither sscanf format reads that
\* far, so nothing below depends on it
rspClientRequest_fileio(fields, result_io, host_respond_error_code, ctrlC) ==
  /\ GetPkt
  /\ IF ctrlC THEN fields = 2 ELSE TRUE
  /\ replies' = <<>>
  /\ lastPkt' = "resume"
  /\ pair' = NoPair
  /\ fioWrites' = rspFileIOreply(fields, result_io, host_respond_error_code)
  /\ ivt' = NoIvt
  /\ dbg' = targetResume(<<>>)
  /\ halted' = FALSE
  /\ fIsTargetRunning' = TRUE
  /\ UNCHANGED <<mem, pc, mpHash, connected, alive, pktLive>>
  /\ UNCHANGED <<shmVars, pktVars>>

\* 'k': rspDetach, fIsTargetRunning = false
rspClientRequest_kill ==
  /\ GetPkt
  /\ Handled(<<>>, "command")
  /\ fIsTargetRunning' = FALSE
  /\ TargetUnchanged
  /\ UNCHANGED <<mpHash, connected, alive, pktLive>>

\* 'R': rspRestart, writePc (0)
rspRestart ==
  /\ GetPkt
  /\ Handled(<<>>, "command")
  /\ pc' = 0
  /\ UNCHANGED <<mem, halted>> /\ ServerUnchanged

\* 'H': rspSetThread answers E01 when the packet does not parse, and OK or
\* E01 as the target control accepts the thread (ok) or not
rspSetThread(parsed, ok) ==
  /\ GetPkt
  /\ IF parsed THEN TRUE ELSE ok
  /\ Handled(<<IF parsed /\ ok THEN "OK" ELSE "E01">>, Parsed(parsed))
  /\ TargetUnchanged /\ ServerUnchanged

\* 'm': E01 when the packet does not parse or the burst fails (~ok), else
\* the data
rspReadMem(parsed, ok) ==
  /\ GetPkt
  /\ IF parsed THEN TRUE ELSE ok
  /\ Handled(<<IF parsed /\ ok THEN "data" ELSE "E01">>, Parsed(parsed))
  /\ TargetUnchanged /\ ServerUnchanged

\* 'p': E01 when the packet does not parse or names no register (~ok)
rspReadReg(parsed, ok) ==
  /\ GetPkt
  /\ IF parsed THEN TRUE ELSE ok
  /\ Handled(<<IF parsed /\ ok THEN "data" ELSE "E01">>, Parsed(parsed))
  /\ TargetUnchanged /\ ServerUnchanged

\* 'g': every register burst that fails sends E01 and the handler goes on;
\* the register packet is sent at the end whatever happened
rspReadAllRegs(fails) ==
  /\ GetPkt
  /\ Handled([i \in 1 .. fails |-> "E01"] \o <<"data">>, "command")
  /\ TargetUnchanged /\ ServerUnchanged

\* 'G' and 'P': the registers are written, the PC among them
rspWriteAllRegs(v) ==
  /\ GetPkt
  /\ Handled(<<"OK">>, "command")
  /\ pc' = v
  /\ UNCHANGED <<mem, halted>> /\ ServerUnchanged

rspWriteReg(parsed, v) ==
  /\ GetPkt
  /\ Handled(<<IF parsed THEN "OK" ELSE "E01">>, Parsed(parsed))
  /\ pc' = IF parsed THEN v ELSE pc
  /\ UNCHANGED <<mem, halted>> /\ ServerUnchanged

\* 'M' and 'X': E01 when the packet does not parse or the burst fails (~ok)
rspWriteMem(parsed, a, v, ok) ==
  /\ GetPkt
  /\ IF parsed THEN TRUE ELSE ok
  /\ Handled(<<IF parsed /\ ok THEN "OK" ELSE "E01">>, Parsed(parsed))
  /\ mem' = IF parsed /\ ok THEN writeMem16(mem, a, v) ELSE mem
  /\ UNCHANGED <<pc, halted>> /\ ServerUnchanged

rspWriteMemBin(parsed, a, v, ok) ==
  /\ GetPkt
  /\ IF parsed THEN TRUE ELSE ok
  /\ Handled(<<IF parsed /\ ok THEN "OK" ELSE "E01">>, Parsed(parsed))
  /\ mem' = IF parsed /\ ok THEN writeMem16(mem, a, v) ELSE mem
  /\ UNCHANGED <<pc, halted>> /\ ServerUnchanged

\* 'M' with address and length but no ':' behind them: sscanf still counts
\* 2, memchr returns NULL and symDat is the address 1 (line 1514).  datLen
\* is then whatever the pointer difference comes to: it differs from
\* len * 2 and E01 is sent, or it matches and writeBurst reads from address
\* 1, which ends the process.
rspWriteMem_noData(matches) ==
  /\ GetPkt
  /\ Handled(IF matches THEN <<>> ELSE <<"E01">>, "malformed")
  /\ alive' = ~matches
  /\ TargetUnchanged
  /\ UNCHANGED <<mpHash, fIsTargetRunning, connected, pktLive>>

\* 'X' with address and length but no ':' behind them: bindat is the
\* address 1 (lines 3331-3332) and rspUnescape is handed it with a length
\* that is whatever the pointer difference comes to: it reads through the
\* pointer, which ends the process, or the length is not positive, nothing
\* is read, len becomes the smaller of the two and OK is sent.
rspWriteMemBin_noData(dies) ==
  /\ GetPkt
  /\ Handled(IF dies THEN <<>> ELSE <<"OK">>, "malformed")
  /\ alive' = ~dies
  /\ TargetUnchanged
  /\ UNCHANGED <<mpHash, fIsTargetRunning, connected, pktLive>>

\* 'q' other than qRcmd: every branch of rspQuery sends one packet
rspQuery(r) ==
  /\ GetPkt
  /\ Handled(<<r>>, "command")
  /\ TargetUnchanged /\ ServerUnchanged

\* qRcmd: the packet is preset to OK and sent at the end.  A reset leaves
\* the core running from 0.  "halt" calls targetHalt; when the core does not
\* halt rspReportException sends the stop packet, and the final putPkt sends
\* the buffer it left once more.
rspCommand(cmd, ok, p) ==
  /\ GetPkt
  /\ IF cmd = "halt" /\ ok /\ ~halted THEN TRUE ELSE p = pc
  /\ IF cmd = "halt" /\ halted THEN ok ELSE TRUE
  /\ IF cmd = "halt" THEN TRUE ELSE ok
  /\ HandledDbg(IF cmd = "halt" /\ ~ok
                THEN Append(rspReportException(<<>>, TARGET_SIGNAL_HUP).sent,
                            StopPacket(TARGET_SIGNAL_HUP))
                ELSE IF cmd \in {"swreset", "halt", "run"} THEN <<"OK">>
                ELSE <<"data">>,
                "command",
                IF cmd = "halt" THEN targetHalt(<<>>) ELSE <<>>)
  /\ fIsTargetRunning' =
       IF cmd = "halt" /\ ~ok
       THEN rspReportException(<<>>, TARGET_SIGNAL_HUP).running
       ELSE fIsTargetRunning
  /\ halted' = CASE cmd = "halt" -> ok
                 [] cmd \in {"swreset", "hwreset"} -> FALSE
                 [] OTHER -> halted
  /\ pc' = IF cmd \in {"swreset", "hwreset"} THEN 0 ELSE p
  /\ UNCHANGED <<mem, mpHash, connected, alive, pktLive>>

\* 'Q': the tracepoint packets are answered OK or ""
rspSet(r) ==
  /\ GetPkt
  /\ Handled(<<r>>, "command")
  /\ TargetUnchanged /\ ServerUnchanged

\* 'Q', anything else: delete pkt, nothing sent
rspSet_unrecognized ==
  /\ GetPkt
  /\ Handled(<<>>, "command")
  /\ pktLive' = FALSE
  /\ TargetUnchanged
  /\ UNCHANGED <<mpHash, fIsTargetRunning, connected, alive>>

\* a vRun that leaves the restarted program running
rspVpkt_running(v) ==
  /\ GetPkt
  /\ Handled(CASE v \in {"vAttach", "vRun"} -> <<"S05">>
               [] v \in {"vCont?", "vFile"} -> <<"empty">>
               [] v = "vCont" -> <<>>
               [] OTHER -> <<"E01">>,
             "command")
  /\ pc' = IF v = "vRun" THEN 0 ELSE pc
  /\ fIsTargetRunning' = (v = "vRun")
  /\ UNCHANGED <<mem, halted, mpHash, connected, alive, pktLive>>

\* 'v': vAttach answers S05, vCont? and vFile "", vCont nothing, the flash
\* packets and anything unknown E01; vRun restarts and answers S05
rspVpkt(v) ==
  /\ GetPkt
  /\ Handled(CASE v \in {"vAttach", "vRun"} -> <<"S05">>
               [] v \in {"vCont?", "vFile"} -> <<"empty">>
               [] v = "vCont" -> <<>>
               [] OTHER -> <<"E01">>,
             "command")
  /\ pc' = IF v = "vRun" THEN 0 ELSE pc
  /\ UNCHANGED <<mem, halted>> /\ ServerUnchanged

(***************************************************************************)
(* Matchpoints                                                             *)
(***************************************************************************)
\* the z0 that writes nothing back
RestoreInstr_skipped(m, a, instr) == m

\* rspRemoveMatchpoint lines 3401-3404: the saved opcode is written back
RestoreInstr(m, a, instr) == writeMem16(m, a, instr)

\* 'Z': rspInsertMatchpoint.  ok: readMem16 delivered the opcode at a;
\* otherwise bpMemVal keeps whatever it held (junk), unchecked.
rspInsertMatchpoint(parsed, type, a, ok, junk) ==
  /\ GetPkt
  /\ IF ok THEN junk = mem[a] ELSE junk \in SampleOpcodes
  /\ IF parsed /\ type = BP_MEMORY THEN TRUE
     ELSE ok /\ a = 10 /\ (IF parsed THEN TRUE ELSE type = BP_MEMORY)
  /\ LET r == CASE ~parsed -> "E01"
                [] type = BP_MEMORY -> "OK"
                [] type \in 1 .. 4 -> "empty"
                [] OTHER -> "E01"
         done == parsed /\ type = BP_MEMORY
     IN /\ replies' = <<r>>
        /\ mpHash' = IF done THEN MpHash_add(mpHash, a, junk) ELSE mpHash
        /\ mem' = IF done THEN putBreakPointInstruction(mem, a) ELSE mem
        /\ pair' = IF done
                   THEN [stage |-> 1, a |-> a, v |-> mem[a], tbl |-> mpHash,
                         ok |-> ok, r1 |-> r, r2 |-> "none"]
                   ELSE NoPair
  /\ lastPkt' = Parsed(parsed)
  /\ dbg' = <<>>
  /\ fioWrites' = NoWrites
  /\ ivt' = NoIvt
  /\ UNCHANGED <<pc, halted, fIsTargetRunning, connected, alive, pktLive>>
  /\ UNCHANGED <<shmVars, pktVars>>

\* an rspRemoveMatchpoint that writes instr back whatever remove returned
rspRemoveMatchpoint_unchecked(parsed, type, a) ==
  /\ GetPkt
  /\ IF parsed /\ type = BP_MEMORY THEN TRUE
     ELSE a = 10 /\ (IF parsed THEN TRUE ELSE type = BP_MEMORY)
  /\ LET r == CASE ~parsed -> "E01"
                [] type = BP_MEMORY -> "OK"
                [] type \in 1 .. 4 -> "empty"
                [] OTHER -> "E01"
         done == parsed /\ type = BP_MEMORY
         found == done /\ MpHash_lookup(mpHash, a)
     IN /\ replies' = <<r>>
        /\ mpHash' = IF found THEN MpHash_remove(mpHash, a) ELSE mpHash
        /\ \E instr \in SampleOpcodes :
             mem' = IF found THEN RestoreInstr(mem, a, mpHash[a])
                    ELSE IF done THEN RestoreInstr(mem, a, instr)
                    ELSE mem
        /\ pair' = IF done /\ pair.stage \in {1, 2, 3} /\ pair.a = a
                   THEN [pair EXCEPT !.stage = IF pair.stage = 1 THEN 2 ELSE 3,
                                     !.r2 = r]
                   ELSE NoPair
  /\ lastPkt' = Parsed(parsed)
  /\ dbg' = <<>>
  /\ fioWrites' = NoWrites
  /\ ivt' = NoIvt
  /\ UNCHANGED <<pc, halted, fIsTargetRunning, connected, alive, pktLive>>
  /\ UNCHANGED <<shmVars, pktVars>>

\* 'z': rspRemoveMatchpoint
rspRemoveMatchpoint(parsed, type, a) ==
  /\ GetPkt
  /\ IF parsed /\ type = BP_MEMORY THEN TRUE
     ELSE a = 10 /\ (IF parsed THEN TRUE ELSE type = BP_MEMORY)
  /\ LET r == CASE ~parsed -> "E01"
                [] type = BP_MEMORY -> "OK"
                [] type \in 1 .. 4 -> "empty"
                [] OTHER -> "E01"
         done == parsed /\ type = BP_MEMORY
         found == done /\ MpHash_lookup(mpHash, a)
     IN /\ replies' = <<r>>
        /\ mpHash' = IF found THEN MpHash_remove(mpHash, a) ELSE mpHash
        /\ mem' = IF found THEN RestoreInstr(mem, a, mpHash[a]) ELSE mem
        /\ pair' = IF done /\ pair.stage \in {1, 2, 3} /\ pair.a = a
                   THEN [pair EXCEPT !.stage = IF pair.stage = 1 THEN 2 ELSE 3,
                                     !.r2 = r]
                   ELSE NoPair
  /\ lastPkt' = Parsed(parsed)
  /\ dbg' = <<>>
  /\ fioWrites' = NoWrites
  /\ ivt' = NoIvt
  /\ UNCHANGED <<pc, halted, fIsTargetRunning, connected, alive, pktLive>>
  /\ UNCHANGED <<shmVars, pktVars>>

(***************************************************************************)
(* Continue, suspend and the run loop of rspServer                         *)
(***************************************************************************)
\* where the program leaves the PC of a core that halts: behind one of its
\* instructions
HaltAddrs == {AWrap(2 * i) : i \in 1 .. Len(Program)}

\* the outcomes of rspContinue's polling: the core found halted with its PC
\* at some address, or (NoHalt) still running when the polls run out
PollOutcomes == HaltAddrs \cup {NoHalt}

\* 'c': rspContinue (addr, except), entered with the flag false.  A core
\* that is not halted only gets the flag set; a halted one gets the PC
\* written and is resumed by targetResume.
rspContinue(addr, o, stdio) ==
  /\ GetPkt
  /\ IF o = NoHalt THEN stdio = "tty"
     ELSE addr = pc /\ (IF IsTrap7(StoppedInstr(o)) THEN TRUE ELSE stdio = "tty")
  /\ LET r == ContinueHalted(<<>>, o, stdio) IN
       IF o = NoHalt
       THEN /\ pc' = IF halted THEN addr ELSE pc
            /\ halted' = FALSE
            /\ fIsTargetRunning' = TRUE
            /\ replies' = <<>>
            /\ dbg' = IF halted THEN targetResume(<<>>) ELSE <<>>
       ELSE /\ pc' = r.pc
            /\ halted' = ~r.running
            /\ fIsTargetRunning' = r.running
            /\ replies' = r.sent
            /\ dbg' = LET first == IF halted THEN targetResume(<<>>) ELSE <<>>
                      IN IF r.running THEN targetResume(first) ELSE first
  /\ lastPkt' = "resume"
  /\ pair' = NoPair
  /\ fioWrites' = NoWrites
  /\ ivt' = NoIvt
  /\ UNCHANGED <<mem, mpHash, connected, alive, pktLive>>
  /\ UNCHANGED <<shmVars, pktVars>>

\* 'C': rspContinue () resumes nothing and reports a signal: QUIT for C03,
\* else the exception the core shows, else TRAP
rspContinue_signal(c03, exStat) ==
  /\ GetPkt
  /\ IF c03 THEN exStat = 0 ELSE TRUE
  /\ LET exCause == IF c03 THEN TARGET_SIGNAL_QUIT
                     ELSE isTargetExceptionState(exStat, TARGET_SIGNAL_TRAP)
     IN /\ Handled(rspReportException(<<>>, exCause).sent, "resume")
        /\ fIsTargetRunning' = rspReportException(<<>>, exCause).running
  /\ TargetUnchanged
  /\ UNCHANGED <<mpHash, connected, alive, pktLive>>

\* rspServer lines 170-183 while the flag is set and no break arrived:
\* rspContinue (0, 0) polls again and finds the core halted
rspServer_poll(o, stdio) ==
  /\ alive /\ connected /\ fIsTargetRunning
  /\ IF IsTrap7(StoppedInstr(o)) THEN TRUE ELSE stdio = "tty"
  /\ LET r == ContinueHalted(replies, o, stdio) IN
       /\ pc' = r.pc
       /\ halted' = ~r.running
       /\ fIsTargetRunning' = r.running
       /\ replies' = r.sent
       /\ dbg' = IF r.running THEN targetResume(<<>>) ELSE <<>>
  /\ pair' = NoPair
  /\ fioWrites' = NoWrites
  /\ ivt' = NoIvt
  /\ UNCHANGED <<mem, mpHash, connected, alive, pktLive, lastPkt>>
  /\ UNCHANGED <<shmVars, pktVars>>

\* rspSuspend, on a break from the client while the flag is set.  already:
\* the core is found in the debug state, and targetHalt is not called.  The
\* core is halted at p (ok), or does not halt and SIGHUP is reported.
\* exStat: the exception field of the status register; atIdle: the status
\* register shows the idle state.
rspSuspend(already, ok, p, exStat, atIdle) ==
  /\ alive /\ connected /\ fIsTargetRunning
  /\ IF already THEN ok ELSE TRUE
  /\ IF ok THEN TRUE ELSE p = pc /\ exStat = 0
  /\ IF ok /\ exStat = 0 THEN TRUE ELSE ~atIdle
  /\ LET exCause == IF ok
                     THEN isTargetExceptionState(exStat, TARGET_SIGNAL_TRAP)
                     ELSE TARGET_SIGNAL_HUP
     IN /\ replies' = rspReportException(replies, exCause).sent
        /\ fIsTargetRunning' = rspReportException(replies, exCause).running
  /\ halted' = ok
  /\ pc' = IF ok /\ exStat = 0 /\ atIdle
              /\ getfield(mem[p], 8, 0) # IDLE_OPCODE
           THEN ASub(p, 2) ELSE p
  /\ dbg' = IF already THEN <<>> ELSE targetHalt(<<>>)
  /\ pair' = NoPair
  /\ fioWrites' = NoWrites
  /\ ivt' = NoIvt
  /\ UNCHANGED <<mem, mpHash, connected, alive, pktLive, lastPkt>>
  /\ UNCHANGED <<shmVars, pktVars>>

(***************************************************************************)
(* Single step                                                             *)
(***************************************************************************)
\* 'S': rspStep () sends the packet it received back, an S with the
\* client's signal
rspStep_signal ==
  /\ GetPkt
  /\ Handled(<<StopPacket(TARGET_SIGNAL_TRAP)>>, "resume")
  /\ TargetUnchanged /\ ServerUnchanged

\* an rspStep that answers E01 for a running core and goes on serving
rspStep_notHalted_served ==
  /\ GetPkt /\ ~halted
  /\ Handled(<<"E01">>, "resume")
  /\ TargetUnchanged /\ ServerUnchanged

\* rspStep lines 2888-2896: the core is not halted: E01 and exit (8)
rspStep_notHalted ==
  /\ GetPkt /\ ~halted
  /\ Handled(<<"E01">>, "resume")
  /\ alive' = FALSE
  /\ TargetUnchanged
  /\ UNCHANGED <<mpHash, fIsTargetRunning, connected, pktLive>>

\* lines 2904-2911: the core stopped on an exception; it is only reported
rspStep_exception(exStat) ==
  /\ GetPkt /\ halted
  /\ exStat # 0
  /\ LET exCause == isTargetExceptionState(exStat, TARGET_SIGNAL_TRAP)
     IN /\ Handled(rspReportException(<<>>, exCause).sent, "resume")
        /\ fIsTargetRunning' = rspReportException(<<>>, exCause).running
  /\ TargetUnchanged
  /\ UNCHANGED <<mpHash, connected, alive, pktLive>>

stoppedAtIdleInstr == getfield(mem[pc], 8, 0) = IDLE_OPCODE
stoppedAtTrap == getfield(mem[pc], 9, 0) = ATDSP_TRAP_INSTR

\* lines 2920-2973: IDLE at the PC.  e: the vector entry whose breakpoint
\* the core hits when an enabled interrupt is pending, NoHalt when none is.
rspStep_idle(e) ==
  /\ GetPkt /\ halted
  /\ stoppedAtIdleInstr
  /\ LET fIVTSaveBuff == saveIVT(mem)
         planted == PlantIvtAll(mem)
     IN /\ mem' = IF e = NoHalt THEN mem ELSE restoreIVT(planted, fIVTSaveBuff)
        /\ pc' = IF e = NoHalt THEN ASub(pc, 2) ELSE e
  /\ HandledStep(rspReportException(<<>>, TARGET_SIGNAL_TRAP).sent, "resume",
                 IF e = NoHalt THEN readIlat(<<>>)
                 ELSE WaitForHalt(targetResume(readIlat(<<>>))),
                 [stepped |-> TRUE, isr |-> e # NoHalt,
                  entries |-> IF e = NoHalt THEN {}
                              ELSE {a \in Addrs : PlantIvtAll(NoBkpts)[a]
                                                     = ATDSP_BKPT_INSTR}])
  /\ fIsTargetRunning' = rspReportException(<<>>, TARGET_SIGNAL_TRAP).running
  /\ UNCHANGED <<halted, mpHash, connected, alive, pktLive>>

\* lines 2976-2987: TRAP at the PC is executed by the server
rspStep_trap(addr, stdio) ==
  /\ GetPkt /\ halted
  /\ ~stoppedAtIdleInstr /\ stoppedAtTrap
  /\ IF IsTrap7(mem[pc]) THEN TRUE ELSE stdio = "tty"
  /\ LET r == redirectSdioOnTrap(<<>>, getfield(mem[pc], 15, 10), stdio)
     IN /\ HandledDbg(r.sent, "resume",
                      IF r.running THEN targetResume(<<>>) ELSE <<>>)
        /\ fIsTargetRunning' = r.running
        /\ halted' = ~r.running
  /\ pc' = AAdd(addr, 2)
  /\ UNCHANGED <<mem, mpHash, connected, alive, pktLive>>

\* lines 2990-3002: the PC reads back different from what was written
rspStep_pcMismatch ==
  /\ GetPkt /\ halted
  /\ ~stoppedAtIdleInstr /\ ~stoppedAtTrap
  /\ Handled(<<"E01">>, "resume")
  /\ alive' = FALSE
  /\ TargetUnchanged
  /\ UNCHANGED <<mpHash, fIsTargetRunning, connected, pktLive>>

\* lines 3004-3102: the breakpoint addresses of a step from pc_.  Jumps by
\* register and RTI take their target from registers; no opcode of the
\* modelled memory is one of them.
StepTargets(m, pc_) ==
  LET t == stepBreakpoints(pc_, m[pc_], m[AAdd(pc_, 2)], 0,
                           [r \in 0 .. 63 |-> 0])
  IN [bkpt_addr |-> AWrap(t.bkpt_addr),
      bkpt_jump_addr |-> AWrap(t.bkpt_jump_addr)]

\* where the resumed core can halt: on the breakpoint at pc_ itself, else
\* on one planted at a successor or at a vector entry
StepHalts(m, pc_, t) ==
  IF m[pc_] = ATDSP_BKPT_INSTR THEN {pc_}
  ELSE {t.bkpt_addr, t.bkpt_jump_addr} \cup (IvtEntries \ {pc_})

\* lines 3023-3128: the table and the memory after the breakpoints of the
\* step are planted
PlantStep(tbl, m, t) ==
  LET tbl1 == IF MpHash_lookup(tbl, t.bkpt_addr) THEN tbl
              ELSE MpHash_add(tbl, t.bkpt_addr, m[t.bkpt_addr])
      m1 == putBreakPointInstruction(m, t.bkpt_addr)
      jump == t.bkpt_jump_addr # t.bkpt_addr
      tbl2 == IF jump /\ ~MpHash_lookup(tbl1, t.bkpt_jump_addr)
              THEN MpHash_add(tbl1, t.bkpt_jump_addr, m1[t.bkpt_jump_addr])
              ELSE tbl1
      m2 == IF jump THEN putBreakPointInstruction(m1, t.bkpt_jump_addr)
            ELSE m1
  IN [tbl |-> tbl2, m |-> m2]

\* lines 3183-3191: every breakpoint address of the step is removed from the
\* table and gets the opcode the table held for it
UnplantStep(tbl, m, t) ==
  LET tbl1 == MpHash_remove(tbl, t.bkpt_addr)
      m1 == writeMem16(m, t.bkpt_addr, tbl[t.bkpt_addr])
      jump == t.bkpt_jump_addr # t.bkpt_addr
  IN [tbl |-> IF jump THEN MpHash_remove(tbl1, t.bkpt_jump_addr) ELSE tbl1,
      m |-> IF jump
            THEN writeMem16(m1, t.bkpt_jump_addr, tbl1[t.bkpt_jump_addr])
            ELSE m1]

\* lines 2990-3199: the step proper, from addr, halting on the breakpoint
\* at B.  The assert of line 3176 aborts the server when it fails.
rspStep(addr, B) ==
  /\ GetPkt /\ halted
  /\ ~stoppedAtIdleInstr /\ ~stoppedAtTrap
  /\ LET t == StepTargets(mem, addr)
         planted == PlantStep(mpHash, mem, t)
         fIVTSaveBuff == saveIVT(planted.m)
         running == PlantIvt(planted.m, addr)
         stopped == restoreIVT(running, fIVTSaveBuff)
         prevPc == B
         asserted == MpHash_lookup(planted.tbl, prevPc)
                       \/ stopped[t.bkpt_jump_addr] = ATDSP_BKPT_INSTR
         cleaned == UnplantStep(planted.tbl, stopped, t)
         written == {a \in Addrs : PlantIvt(NoBkpts, addr)[a]
                                      = ATDSP_BKPT_INSTR}
     IN /\ B \in StepHalts(running, addr, t)
        /\ IF asserted
           THEN /\ pc' = prevPc
                /\ mpHash' = cleaned.tbl
                /\ mem' = cleaned.m
                /\ alive' = TRUE
                /\ \E isr \in BOOLEAN :
                     HandledStep(
                       rspReportException(<<>>, TARGET_SIGNAL_TRAP).sent,
                       "resume", WaitForHalt(targetResume(<<>>)),
                       [stepped |-> TRUE, isr |-> isr,
                        entries |-> written])
                /\ fIsTargetRunning' =
                     rspReportException(<<>>, TARGET_SIGNAL_TRAP).running
           ELSE /\ pc' = AAdd(B, 2)
                /\ mpHash' = planted.tbl
                /\ mem' = stopped
                /\ alive' = FALSE
                /\ \E isr \in BOOLEAN :
                     HandledStep(<<>>, "resume",
                                 WaitForHalt(targetResume(<<>>)),
                                 [stepped |-> TRUE, isr |-> isr,
                                  entries |-> written])
                /\ fIsTargetRunning' = TRUE
  /\ UNCHANGED <<halted, connected, pktLive>>

(***************************************************************************)
(* The server                                                              *)
(***************************************************************************)
NextGdb ==
  \/ \E attach, ok \in BOOLEAN, p \in HaltAddrs :
       rspServer_connect(attach, ok, p)
  \/ rspClientRequest_close
  \/ \E dies \in BOOLEAN : rspClientRequest_freed(dies)
  \/ \E r \in {"empty", "E01", "OK"} : rspClientRequest_answer(r)
  \/ rspClientRequest_ignored
  \/ rspClientRequest_status
  \/ rspClientRequest_detach
  \/ \E fields \in 0 .. 2, result_io \in FioResults,
        host_respond_error_code \in FioErrors, ctrlC \in BOOLEAN :
       rspClientRequest_fileio(fields, result_io, host_respond_error_code,
                               ctrlC)
  \/ rspClientRequest_kill
  \/ rspRestart
  \/ \E parsed, ok \in BOOLEAN : rspSetThread(parsed, ok)
  \/ \E parsed, ok \in BOOLEAN : rspReadMem(parsed, ok)
  \/ \E parsed, ok \in BOOLEAN : rspReadReg(parsed, ok)
  \/ \E fails \in 0 .. 3 : rspReadAllRegs(fails)
  \/ \E v \in StepAddrs : rspWriteAllRegs(v)
  \/ \E parsed \in BOOLEAN, v \in StepAddrs : rspWriteReg(parsed, v)
  \/ \E parsed, ok \in BOOLEAN, a \in BpAddrs, v \in SampleOpcodes :
       rspWriteMem(parsed, a, v, ok)
  \/ \E parsed, ok \in BOOLEAN, a \in BpAddrs, v \in SampleOpcodes :
       rspWriteMemBin(parsed, a, v, ok)
  \/ \E matches \in BOOLEAN : rspWriteMem_noData(matches)
  \/ \E dies \in BOOLEAN : rspWriteMemBin_noData(dies)
  \/ \E r \in {"data", "OK", "empty", "E01"} : rspQuery(r)
  \/ \E cmd \in {"swreset", "hwreset", "halt", "run", "help"},
        ok \in BOOLEAN, p \in HaltAddrs : rspCommand(cmd, ok, p)
  \/ \E r \in {"OK", "empty"} : rspSet(r)
  \/ rspSet_unrecognized
  \/ \E v \in {"vAttach", "vCont?", "vCont", "vFile", "vFlashErase", "vRun"} :
       rspVpkt(v)
  \/ \E parsed, ok \in BOOLEAN, type \in MpTypes, a \in BpAddrs,
        junk \in SampleOpcodes \cup {mem[x] : x \in BpAddrs} :
       rspInsertMatchpoint(parsed, type, a, ok, junk)
  \/ \E parsed \in BOOLEAN, type \in MpTypes, a \in BpAddrs :
       rspRemoveMatchpoint(parsed, type, a)
  \/ \E addr \in StepAddrs \cup {pc}, o \in PollOutcomes, stdio \in Stdio :
       rspContinue(addr, o, stdio)
  \/ \E c03 \in BOOLEAN, exStat \in ExStats : rspContinue_signal(c03, exStat)
  \/ \E o \in HaltAddrs, stdio \in Stdio : rspServer_poll(o, stdio)
  \/ \E already, ok, atIdle \in BOOLEAN, p \in HaltAddrs,
        exStat \in ExStats :
       rspSuspend(already, ok, p, exStat, atIdle)
  \/ rspStep_signal
  \/ rspStep_notHalted
  \/ \E exStat \in ExStats : rspStep_exception(exStat)
  \/ \E e \in IvtEntries \cup {NoHalt} : rspStep_idle(e)
  \/ \E addr \in StepAddrs \cup {pc}, stdio \in Stdio :
       rspStep_trap(addr, stdio)
  \/ rspStep_pcMismatch
  \/ \E addr \in StepAddrs \cup {pc}, B \in Addrs : rspStep(addr, B)

\* The continue engine with every trap number.  The client writes a TRAP of
\* any of the 64 numbers over the last instruction of the program, resumes
\* the core and answers the File-I/O requests.
NextTrap ==
  \/ \E attach, ok \in BOOLEAN, p \in HaltAddrs :
       rspServer_connect(attach, ok, p)
  \/ \E trapNumber \in 0 .. 63 :
       rspWriteMem(TRUE, 2 * Len(Program) - 2, TrapInstr(trapNumber), TRUE)
  \/ \E o \in PollOutcomes, stdio \in Stdio : rspContinue(pc, o, stdio)
  \/ \E o \in HaltAddrs, stdio \in Stdio : rspServer_poll(o, stdio)
  \/ \E fields \in 0 .. 2, result_io \in FioResults,
        host_respond_error_code \in FioErrors, ctrlC \in BOOLEAN :
       rspClientRequest_fileio(fields, result_io, host_respond_error_code,
                               ctrlC)
(***************************************************************************)
(* Packet-sized replies: rspReadMem's length and the qXfer:osdata reads     *)
(***************************************************************************)
IntBits == 8                   \* width of int and unsigned int (32, scaled down)
RSP_PKT_MAX == 16              \* capacity of the packet buffer (scaled down)
MaxDocLen == 3                 \* longest osdata document, in characters
MaxXfer == 4                   \* largest offset and length of a qXfer read

IntMod == 2 ^ IntBits
\* the value an unsigned bit pattern has as an int
ToInt(u) == IF u >= IntMod \div 2 THEN u - IntMod ELSE u
\* int arithmetic that wraps around
IntWrap(x) == ToInt(((x % IntMod) + IntMod) % IntMod)

\* what a signed overflow in len * 2 can come to: the product wrapped to the
\* width of int, or the comparison done as if the product were exact
Overflows == {"wraps", "exact"}

\* rspReadMem lines 1437-1453: the len that sizes buf and is handed to
\* readBurst, for the length field N as sscanf's %x stored it in the int
rspReadMem_len(N, overflow) ==
  LET len == ToInt(N)
      twice == IF overflow = "wraps" THEN IntWrap(len * 2) ELSE len * 2
  IN IF twice >= RSP_PKT_MAX THEN (RSP_PKT_MAX - 1) \div 2 ELSE len

NoRead == [N |-> 0, len |-> 0]

\* an 'm' packet with the length field N
rspReadMem_sized(N, overflow) ==
  /\ IF ToInt(N) * 2 = IntWrap(ToInt(N) * 2) THEN overflow = "exact" ELSE TRUE
  /\ rdMem' = [N |-> N, len |-> rspReadMem_len(N, overflow)]
  /\ UNCHANGED <<osProcessReply, xfer, xferAcc, xferSeq, stepDec, coreMem,
                 argPkt>>
  /\ UNCHANGED <<shmVars, gdbVars>>

\* the register numbers of the 'p' and 'P' packets: the general purpose
\* registers come first, the status and DMA banks behind them
ATDSP_NUM_GPRS == 64
ATDSP_TOTAL_NUM_REGS == 80

\* rspReadMem lines 1463-1471: the bytes as pairs of hex digits, the high
\* digit first.  A character is its ASCII code; Utils::hex2Char gives the
\* digits 0-9 and a-f.
HexOf(bytes) ==
  LET hex2Char(d) == IF d < 10 THEN 48 + d ELSE 87 + d
  IN [i \in 1 .. 2 * Len(bytes) |->
        IF i % 2 = 1 THEN hex2Char(bytes[(i + 1) \div 2] \div 16)
        ELSE hex2Char(bytes[i \div 2] % 16)]

\* 'M' addr,len:symDat with both numbers converted (lines 1484-1541): the
\* count of characters behind the colon is checked against len * 2, and
\* writeBurst is handed symDat itself for len bytes.  ok: the burst succeeds.
rspWriteMem_data(addr, len, symDat, ok) ==
  LET fits == len * 2 = Len(symDat) IN
    /\ coreMem' = IF fits /\ ok
                  THEN [a \in DOMAIN coreMem |->
                          IF a >= addr /\ a < addr + len
                          THEN symDat[a - addr + 1] ELSE coreMem[a]]
                  ELSE coreMem
    /\ argPkt' = [kind |-> "M", num |-> addr, len |-> len, ok |-> ok,
                  status |-> IF fits /\ ok THEN "OK" ELSE "E01",
                  data |-> <<>>, bank |-> "none",
                  wr |-> [addr |-> addr, len |-> len, sent |-> symDat,
                          ok |-> ok]]
    /\ UNCHANGED <<osProcessReply, xfer, xferAcc, xferSeq, rdMem, stepDec>>
    /\ UNCHANGED <<shmVars, gdbVars>>

\* 'm' addr,N with both numbers converted (lines 1403-1481): readBurst of
\* len bytes and the reply built from them.  ok: the burst succeeds.
rspReadMem_data(addr, N, ok) ==
  LET len == rspReadMem_len(N, "exact") IN
    /\ len >= 0 /\ addr + len - 1 \in DOMAIN coreMem \cup {addr - 1}
    /\ argPkt' = [kind |-> "m", num |-> addr, len |-> len, ok |-> ok,
                  status |-> IF ok THEN "data" ELSE "E01",
                  data |-> IF ok
                           THEN HexOf([i \in 1 .. len |-> coreMem[addr + i - 1]])
                           ELSE <<>>,
                  bank |-> "none", wr |-> argPkt.wr]
    /\ UNCHANGED <<osProcessReply, xfer, xferAcc, xferSeq, rdMem, stepDec,
                   coreMem>>
    /\ UNCHANGED <<shmVars, gdbVars>>

\* 'p' with the number converted (lines 1556-1602): sscanf's %x stores the
\* field u into the int regNum; the bank read is recorded, with the number
\* readGpr gets as its unsigned parameter
rspReadReg_num(u) ==
  LET regNum == ToInt(u)
      known == regNum < ATDSP_TOTAL_NUM_REGS
  IN /\ argPkt' = [kind |-> "p", num |-> u, len |-> 0, ok |-> TRUE,
                   status |-> IF known THEN "data" ELSE "E01",
                   data |-> <<>>,
                   bank |-> IF regNum < ATDSP_NUM_GPRS THEN "gpr"
                            ELSE IF known THEN "scr" ELSE "none",
                   wr |-> [addr |-> 0, len |-> 0, sent |-> <<>>, ok |-> TRUE]]
     /\ UNCHANGED <<osProcessReply, xfer, xferAcc, xferSeq, rdMem, stepDec,
                    coreMem>>
     /\ UNCHANGED <<shmVars, gdbVars>>

\* 'P' with the number and the value converted (lines 1615-1661): the bank
\* written is recorded
rspWriteReg_num(u) ==
  LET regNum == ToInt(u)
      known == regNum < ATDSP_TOTAL_NUM_REGS
  IN /\ argPkt' = [kind |-> "P", num |-> u, len |-> 0, ok |-> TRUE,
                   status |-> IF known THEN "OK" ELSE "E01",
                   data |-> <<>>,
                   bank |-> IF regNum < ATDSP_NUM_GPRS THEN "gpr"
                            ELSE IF known THEN "scr" ELSE "none",
                   wr |-> [addr |-> 0, len |-> 0, sent |-> <<>>, ok |-> TRUE]]
     /\ UNCHANGED <<osProcessReply, xfer, xferAcc, xferSeq, rdMem, stepDec,
                    coreMem>>
     /\ UNCHANGED <<shmVars, gdbVars>>

NextReadMem ==
  \E N \in 0 .. IntMod - 1, overflow \in Overflows : rspReadMem_sized(N, overflow)

\* the 'm', 'M', 'p' and 'P' packets with their arguments: register fields
\* at the ends of each bank and of the positive and negative ints; writes of
\* one or two bytes, sent as the hex digits of bytes with digits and letters
\* in them, with a length that agrees with the digits or not; reads of up to
\* two bytes
NextArgs ==
  \/ \E addr \in 0 .. 1, len \in 1 .. 2, ok \in BOOLEAN,
        B \in UNION {[1 .. n -> {10, 255}] : n \in 1 .. 2} :
       rspWriteMem_data(addr, len, HexOf(B), ok)
  \/ \E addr \in 0 .. 1, N \in 0 .. 2, ok \in BOOLEAN :
       rspReadMem_data(addr, N, ok)
  \/ \E u \in {0, ATDSP_NUM_GPRS - 1, ATDSP_NUM_GPRS,
               ATDSP_TOTAL_NUM_REGS - 1, ATDSP_TOTAL_NUM_REGS,
               IntMod \div 2 - 1, IntMod \div 2, IntMod - 1} :
       rspReadReg_num(u) \/ rspWriteReg_num(u)

\* the documents rspOsDataProcesses, rspOsDataLoad and rspOsDataTraffic can
\* build: the cores listed and the random loads make the length and the
\* characters vary.  A character is a number.
OsDocs ==
  {[i \in 1 .. n |-> i + k] : n \in 1 .. MaxDocLen, k \in {0, MaxDocLen}}

\* RspPacket::packNStr: the prefix and the first n characters of str
packNStr(str, n, prefix) == [type |-> prefix, body |-> SubSeq(str, 1, n)]
\* RspPacket::packStr ("l")
packStr_l == [type |-> "l", body |-> <<>>]

\* an rspOsDataProcesses that asks for more when nothing is left
rspOsDataProcesses_more(reply, offset, length) ==
  LET len == Len(reply) IN
    IF offset >= len THEN packStr_l
    ELSE LET rest == len - offset
         IN packNStr(SubSeq(reply, offset + 1, len),
                     IF rest >= length THEN length ELSE rest,
                     IF rest >= length THEN "m" ELSE "l")

\* rspOsDataProcesses lines 2085-2108 (rspOsDataLoad and rspOsDataTraffic end
\* alike): the packet for the stored document
rspOsDataProcesses(reply, offset, length) ==
  LET len == Len(reply) IN
    IF offset >= len THEN packStr_l
    ELSE LET rest == len - offset
         IN packNStr(SubSeq(reply, offset + 1, len),
                     IF rest > length THEN length ELSE rest,
                     IF rest > length THEN "m" ELSE "l")

NoXfer == [off |-> 0, len |-> 0, type |-> "none", body |-> <<>>]

\* qXfer:osdata:read:<annex>:<offset>,<length>.  The document is built anew
\* (doc) when offset is 0 and is the stored one otherwise.  xferAcc and
\* xferSeq follow a client that starts at offset 0 and goes on from where the
\* last reply ended until a reply says 'l'.
rspTransfer(offset, length, doc) ==
  /\ IF offset = 0 THEN TRUE ELSE doc = osProcessReply
  /\ osProcessReply' = doc
  /\ LET r == rspOsDataProcesses(doc, offset, length)
         follows == offset = 0
                      \/ (xferSeq = "reading" /\ offset = Len(xferAcc))
     IN /\ xfer' = [off |-> offset, len |-> length, type |-> r.type,
                    body |-> r.body]
        /\ xferAcc' = IF offset = 0 THEN r.body
                      ELSE IF follows THEN xferAcc \o r.body
                      ELSE <<>>
        /\ xferSeq' = IF ~follows THEN "none"
                      ELSE IF r.type = "l" THEN "done" ELSE "reading"
  /\ UNCHANGED <<rdMem, stepDec, coreMem, argPkt>>
  /\ UNCHANGED <<shmVars, gdbVars>>

NextXfer ==
  \E offset, length \in 0 .. MaxXfer, doc \in OsDocs \cup {osProcessReply} :
    rspTransfer(offset, length, doc)

(***************************************************************************)
(* The step engine's choice of breakpoint addresses, instruction by        *)
(* instruction                                                             *)
(***************************************************************************)
\* the general registers: 64 of them, all holding different addresses
DecodeGpr == [r \in 0 .. 63 |-> 4096 + 4 * r]

NoDecode == [ran |-> FALSE, pc |-> 0, opcode |-> 0, ext |-> 0, iret |-> 0,
             is32 |-> FALSE, bkpt_addr |-> 0, bkpt_jump_addr |-> 0]

\* rspStep lines 3004-3102 for one instruction: the opcode and its extension
\* are fetched and the two breakpoint addresses computed
rspStep_decode(pc_, instrOpcode, instrExt, iret) ==
  /\ ~stepDec.ran
  /\ LET t == stepBreakpoints(pc_, instrOpcode, instrExt, iret, DecodeGpr)
     IN stepDec' = [ran |-> TRUE, pc |-> pc_, opcode |-> instrOpcode,
                    ext |-> instrExt, iret |-> iret, is32 |-> t.is32,
                    bkpt_addr |-> t.bkpt_addr,
                    bkpt_jump_addr |-> t.bkpt_jump_addr]
  /\ UNCHANGED <<osProcessReply, xfer, xferAcc, xferSeq, rdMem, coreMem,
                 argPkt>>
  /\ UNCHANGED <<shmVars, gdbVars>>

\* the instructions: every value of the 16-bit opcode, with extension words
\* that differ in the sign of the displacement and in the register bits, at
\* a low address, in the middle and last in memory; IRET holds 0x300
NextDecode ==
  /\ ~stepDec.ran
  /\ \E pc_ \in {0, 512, WordMod - 2}, instrOpcode \in 0 .. 65535,
        instrExt \in {0, 1024, 32768, 65535}, iret \in {768} :
       rspStep_decode(pc_, instrOpcode, instrExt, iret)

InitPkt ==
  /\ osProcessReply = <<>>
  /\ xfer = NoXfer
  /\ xferAcc = <<>>
  /\ xferSeq = "none"
  /\ rdMem = NoRead
  /\ stepDec = NoDecode
  /\ coreMem = [a \in 0 .. 3 |-> 0]
  /\ argPkt = [kind |-> "none", num |-> 0, len |-> 0, ok |-> TRUE,
               status |-> "none", data |-> <<>>, bank |-> "none",
               wr |-> [addr |-> 0, len |-> 0, sent |-> <<>>, ok |-> TRUE]]


\* Every specification starts with the table as the driver leaves it and the
\* server waiting for its first client.
Init == InitShm /\ InitGdb /\ InitPkt

SpecShm == Init /\ [][NextShm]_vars

SpecGdb == Init /\ [][NextGdb]_vars

SpecReadMem == Init /\ [][NextReadMem]_vars

SpecXfer == Init /\ [][NextXfer]_vars

SpecDecode == Init /\ [][NextDecode]_vars

SpecTrap == Init /\ [][NextTrap]_vars

SpecArgs == Init /\ [][NextArgs]_vars

(***************************************************************************)
(* Properties of the shared-memory manager                                 *)
(***************************************************************************)

\* sum of the sizes of the regions 1..k whose valid flag is set
RECURSIVE ValidSizeSum(_)
ValidSizeSum(k) ==
  IF k = 0 THEN 0
  ELSE ValidSizeSum(k - 1) + (IF regions[k].valid # 0 THEN regions[k].size ELSE 0)

\* the second half of an e_shm_release that found its region
ReleaseCompletes(p, i) ==
  /\ e_shm_release_exit(p)
  /\ proc[p].idx = i

\* C4: e_shm_release on a valid region decrements its refcnt by one; when the
\* refcnt reaches zero the region's size is added back to free_space and
\* valid is cleared; when the refcnt stays positive, free_space and valid are
\* unchanged.
C4_ReleaseGivesSpaceBack ==
  [][\A p \in Procs, i \in Slots :
       ReleaseCompletes(p, i) =>
         /\ regions'[i].refcnt = USub(regions[i].refcnt, 1)
         /\ IF regions'[i].refcnt = 0
            THEN /\ free_space' = UAdd(free_space, regions[i].size)
                 /\ regions'[i].valid = 0
            ELSE /\ free_space' = free_space
                 /\ regions'[i].valid = regions[i].valid]_vars

\* C5: after any sequence of e_shm_alloc, e_shm_attach and e_shm_release
\* calls from the empty table, free_space equals the heap capacity minus the
\* sum of the sizes of the valid regions.
C5_FreeSpaceAccounting ==
  free_space = USub(HeapCap, ValidSizeSum(MaxRegions) % UintMod)

\* C6: under every interleaving, a region's refcnt equals 1 + completed
\* attaches - completed releases since its allocation, and the region is
\* valid exactly while that count is positive.
C6_RefcntCountsReferences ==
  \A i \in Slots :
    (regions[i].valid # 0 \/ expected[i] > 0) =>
      /\ regions[i].valid = 1
      /\ regions[i].refcnt = expected[i]

\* C7: at most one process at a time is between sem_wait and sem_post, also
\* after e_shm_finalize has unlinked the semaphore and after a later
\* e_shm_init has overwritten the lock handle in the table.
C7_MutualExclusion ==
  Cardinality({p \in Procs : InCritical(p)}) <= 1

\* C8: no two valid regions have the same name; an e_shm_alloc that finds a
\* valid region with its name fails with EEXIST, also when two processes
\* allocate the same name concurrently.
C8_ValidNamesUnique ==
  \A i, j \in Slots :
    (regions[i].valid # 0 /\ regions[j].valid # 0
       /\ regions[i].name = regions[j].name) => i = j

(***************************************************************************)
(* Properties of the debug server                                          *)
(***************************************************************************)

\* a step that ran the core from some address and came back
StepCompletes ==
  \E addr \in StepAddrs \cup {pc}, B \in Addrs : rspStep(addr, B)

\* C1: after rspStep(addr, except) on an instruction that is neither IDLE nor
\* TRAP, the matchpoint table holds the same BP_MEMORY addresses as before,
\* and every address that held a user breakpoint before the step still holds
\* the BKPT opcode in target memory.
C1_StepKeepsMatchpoints ==
  [][StepCompletes =>
       /\ DOMAIN mpHash' = DOMAIN mpHash
       /\ \A a \in DOMAIN mpHash :
            mem[a] = ATDSP_BKPT_INSTR => mem'[a] = ATDSP_BKPT_INSTR]_vars

\* a Z0,A,2 whose read of A succeeded, directly followed by z0,A,2
PairDone == pair.stage = 2 /\ pair.ok

\* what the pair is claimed to leave behind
PairUndone ==
  /\ mem[pair.a] = pair.v
  /\ mpHash = pair.tbl
  /\ pair.r1 = "OK" /\ pair.r2 = "OK"

IsStopPacket(r) == r \in {StopPacket(exCause) : exCause \in Signals}
LastReply == replies[Len(replies)]

\* C3 as stated: after any reply is sent, fIsTargetRunning is true if and
\* only if the reply just sent was not a stop packet.
C3_RunningIffNotStopReply ==
  replies # <<>> => (fIsTargetRunning <=> ~IsStopPacket(LastReply))

\* C3, one direction: when the reply just sent was a stop packet,
\* fIsTargetRunning is false.
C3_StopReplyClearsRunning ==
  (replies # <<>> /\ IsStopPacket(LastReply)) => ~fIsTargetRunning

\* a resuming packet was answered with a stop packet and the flag is clear
C3_StoppedAfterResume ==
  /\ lastPkt = "resume" /\ halted
  /\ replies = <<"S05">>
  /\ ~fIsTargetRunning

\* C9: for every received packet that starts no File-I/O round trip, at
\* most one reply packet is sent before rspClientRequest returns.
C9_AtMostOneReply ==
  (\A i \in 1 .. Len(replies) : replies[i] # "F") => Len(replies) <= 1

\* C10: when the dispatcher is about to read the next packet and the last
\* one was neither a continue nor part of a File-I/O round trip, a reply to
\* it has been sent.
C10_ReplyBeforeNextRead ==
  (alive /\ connected /\ ~fIsTargetRunning
     /\ lastPkt \in {"command", "malformed"})
    => replies # <<>>

\* the stop packets among the replies rs
StopReplies(rs) == {i \in 1 .. Len(rs) : IsStopPacket(rs[i])}

\* the continue engine, entered by 'c' or by the run loop, finds the core
\* halted with its PC at o
ContinueByPacket(o) ==
  \E addr \in StepAddrs \cup {pc}, stdio \in Stdio : rspContinue(addr, o, stdio)
ContinueByPoll(o) == \E stdio \in Stdio : rspServer_poll(o, stdio)

\* the halt at o is one on a user breakpoint: BKPT at o - 2, and o - 2 in
\* the table
HitsUserBreakpoint(o) ==
  /\ mem[ASub(o, 2)] = ATDSP_BKPT_INSTR
  /\ MpHash_lookup(mpHash, ASub(o, 2))

\* C11: after a 'c', when the target halts with PC = P, the word at P - 2 is
\* the BKPT opcode and (BP_MEMORY, P - 2) is in the matchpoint table, the
\* server writes PC := P - 2, sends exactly one stop reply, S05, and sets the
\* running flag false, and the breakpoint entry stays in the table.
C11_BreakpointHitRewindsPc ==
  [][(/\ IF fIsTargetRunning THEN TRUE ELSE lastPkt' = "resume"
      /\ ivt' = NoIvt /\ mem' = mem)
       => \A o \in HaltAddrs :
            (HitsUserBreakpoint(o)
               /\ (ContinueByPacket(o) \/ ContinueByPoll(o)))
              => /\ pc' = ASub(o, 2)
                 /\ replies' = IF ContinueByPoll(o)
                               THEN Append(replies, "S05")
                               ELSE <<"S05">>
                 /\ Cardinality(StopReplies(replies')) = 1
                 /\ ~fIsTargetRunning'
                 /\ mpHash' = mpHash]_vars

\* a 'c' resumed the core, it stopped on a user breakpoint and the PC is
\* back on the breakpoint's address
C11_StoppedOnUserBreakpoint ==
  /\ lastPkt = "resume" /\ dbg = <<"RUN">>
  /\ replies = <<"S05">> /\ ~fIsTargetRunning /\ halted
  /\ MpHash_lookup(mpHash, pc) /\ mem[pc] = ATDSP_BKPT_INSTR

\* C12: on a 0x03 break while the running flag is true, the server writes
\* DEBUGCMD := HALT unless the target is halted already, then sends exactly
\* one stop reply and sets the running flag false: SIGHUP when the target
\* does not reach the debug state, else the signal derived from the target
\* state, S05 when STATUS[18:16] = 0.
C12_BreakHaltsAndReports ==
  [][(fIsTargetRunning /\ lastPkt' = lastPkt /\ connected' /\ mem' = mem) =>
     \A already, atIdle \in BOOLEAN, ok \in {halted'},
        p \in {pc', AAdd(pc', 2)} \cap HaltAddrs, exStat \in ExStats :
       rspSuspend(already, ok, p, exStat, atIdle)
         => /\ dbg' = IF already THEN <<>> ELSE <<"HALT">>
            /\ replies' =
                 Append(replies,
                        IF ~ok THEN "S01"
                        ELSE IF exStat = 0 THEN "S05"
                        ELSE StopPacket(isTargetExceptionState(
                                          exStat, TARGET_SIGNAL_TRAP)))
            /\ Cardinality(StopReplies(replies')) = 1
            /\ ~fIsTargetRunning']_vars

\* a break halted the running core: HALT was written and S05 reported
C12_HaltedByBreak ==
  /\ lastPkt = "resume" /\ dbg = <<"HALT">>
  /\ replies = <<"S05">> /\ ~fIsTargetRunning /\ halted

\* the halt at o is one on a TRAP that asks for a write, read, open or close;
\* the continue engine leaves the PC of such a halt where it is
HaltsOnFileTrap(o) ==
  /\ mem[ASub(o, 2)] # ATDSP_BKPT_INSTR
  /\ getfield(StoppedInstr(o), 9, 0) = ATDSP_TRAP_INSTR
  /\ getfield(StoppedInstr(o), 15, 10) \in {0, 1, 2, 6}

\* C13: when the target halts on a TRAP numbered 0, 1, 2 or 6 the server
\* sends one F request and no stop reply; on the client's F reply it writes
\* the result into r0 and the errno, when the reply carries one, into r3,
\* writes DEBUGCMD := RUN, sets the running flag true and sends no stop
\* reply.
C13_FileIORoundTrip ==
  [][/\ (HaltsOnFileTrap(pc')
          /\ (ContinueByPacket(pc') \/ ContinueByPoll(pc')))
         => /\ replies' = IF ContinueByPoll(pc') THEN Append(replies, "F")
                          ELSE <<"F">>
            /\ StopReplies(replies') = {}
            /\ ~fIsTargetRunning'
     /\ GetPkt =>
        \A fields \in 1 .. 2, result_io \in FioResults,
           host_respond_error_code \in FioErrors :
          rspClientRequest_fileio(fields, result_io, host_respond_error_code,
                                  FALSE)
            => /\ fioWrites'.r0 = result_io
               /\ fields = 2 => fioWrites'.r3 = host_respond_error_code
               /\ dbg' = <<"RUN">>
               /\ fIsTargetRunning'
               /\ replies' = <<>>]_vars

\* an F reply with result and errno was served and the core runs again
C13_ResumedAfterFileIO ==
  /\ lastPkt = "resume" /\ fIsTargetRunning /\ ~halted
  /\ \E result_io \in FioResults, host_respond_error_code \in FioErrors :
       fioWrites = [r0 |-> result_io, r3 |-> host_respond_error_code]
  /\ dbg = <<"RUN">> /\ replies = <<>>

\* the successors of the instruction at the PC, where a step plants its
\* breakpoints
StepSuccessors ==
  {StepTargets(mem, pc).bkpt_addr, StepTargets(mem, pc).bkpt_jump_addr}

\* a step proper can be taken from the PC
StepFromPc ==
  GetPkt /\ halted /\ ~stoppedAtIdleInstr /\ ~stoppedAtTrap

\* what C14 says of a step from the PC that halts at B
StepReachesSuccessor(B) ==
  /\ B \in StepSuccessors
  /\ dbg' = <<"RUN", "wait">>
  /\ pc' = B
  /\ replies' = <<"S05">>
  /\ ~fIsTargetRunning'

\* C14 as stated: a step from PC = p over an instruction that is neither
\* IDLE nor TRAP, no exception pending and no interrupt taken (the core
\* halts at a successor or at p itself, not at a vector entry), resumes the
\* target exactly once, halts at a breakpoint planted at a successor, leaves
\* the PC at the successor reached (halt PC minus 2), sends exactly one S05
\* and leaves the running flag false.
C14_StepReachesSuccessor ==
  [][StepFromPc =>
       \A B \in StepSuccessors \cup {pc} :
         rspStep(pc, B) => StepReachesSuccessor(B)]_vars

\* C14, restricted: the same, when the word at p is not the BKPT opcode.
C14_StepOverNonBreakpoint ==
  [][(StepFromPc /\ mem[pc] # ATDSP_BKPT_INSTR /\ ivt'.stepped) =>
       \A B \in StepSuccessors \cup {pc} :
         rspStep(pc, B) => StepReachesSuccessor(B)]_vars

\* a step over the branch at 10 came back from its target, 14
C14_SteppedOverBranch ==
  /\ lastPkt = "resume" /\ dbg = <<"RUN", "wait">>
  /\ pc = 14 /\ mem[10] = 512
  /\ replies = <<"S05">> /\ ~fIsTargetRunning /\ alive

\* what C15 says of a step at an IDLE
StepAtIdleReturns ==
  /\ mem' = mem
  /\ dbg' = <<"ILAT">>
  /\ replies' = <<"S05">>
  /\ ~fIsTargetRunning'

\* C15 as stated: a step requested while the instruction at the PC is IDLE
\* and no enabled interrupt is pending plants no IVT breakpoint, does not
\* write DEBUGCMD := RUN, does not wait on the DEBUG register and sends
\* exactly one stop reply, TRAP.
C15_StepAtIdleReturns ==
  [][(GetPkt /\ stoppedAtIdleInstr
        /\ (\/ rspStep_idle(NoHalt)
            \/ rspStep_notHalted
            \/ \E exStat \in ExStats : rspStep_exception(exStat)))
       => StepAtIdleReturns]_vars

\* C15, restricted: the same, when the core is halted with no exception
\* pending.
C15_HaltedStepAtIdleReturns ==
  [][(GetPkt /\ rspStep_idle(NoHalt)) => StepAtIdleReturns]_vars

\* a step at the IDLE of address 0 returned without running the core
C15_SteppedAtIdle ==
  /\ lastPkt = "resume" /\ dbg = <<"ILAT">> /\ halted
  /\ replies = <<"S05">> /\ ~fIsTargetRunning
  /\ getfield(mem[AAdd(pc, 2)], 8, 0) = IDLE_OPCODE

Min(a, b) == IF a < b THEN a ELSE b

\* C16: a qXfer:osdata read at off, len answers with exactly
\* min(len, |D| - off) characters of the document D generated at offset 0,
\* from off on, prefixed 'm' when characters remain after them and 'l' when
\* they are the last; off >= |D| is answered 'l' with an empty body; so
\* reads at successive offsets that end with an 'l' reconstruct D.
C16_XferReadsExact ==
  /\ xfer.type # "none" =>
       LET D == osProcessReply
           n == Len(D)
       IN IF xfer.off >= n
          THEN xfer.type = "l" /\ xfer.body = <<>>
          ELSE /\ xfer.body
                    = SubSeq(D, xfer.off + 1,
                             xfer.off + Min(xfer.len, n - xfer.off))
               /\ xfer.type = IF xfer.off + xfer.len < n THEN "m" ELSE "l"
  /\ xferSeq = "done" => xferAcc = osProcessReply

\* a document of full length was read in more than one part
C16_ReadInParts ==
  /\ xferSeq = "done" /\ xfer.type = "l" /\ xfer.off > 0
  /\ Len(xferAcc) = MaxDocLen

\* C17: for every length field N of an 'm' packet the number of bytes the
\* handler reads and encodes is between 0 and (packet capacity - 1) / 2.
C17_ReadLenWithinPacket ==
  rdMem.len \in 0 .. (RSP_PKT_MAX - 1) \div 2

\* C18: the matchpoint table and target memory, the planted BKPT opcodes
\* with it, are unchanged by a detach, a kill, a socket failure and the
\* following reconnect.
C18_DisconnectKeepsBreakpoints ==
  [][(\/ rspClientRequest_detach
      \/ rspClientRequest_kill
      \/ rspClientRequest_close
      \/ ~connected /\ \E attach, ok \in BOOLEAN, p \in HaltAddrs :
                          rspServer_connect(attach, ok, p))
       => (mem' = mem /\ mpHash' = mpHash)]_vars

\* a client connected again and finds a breakpoint of an earlier session in
\* the table and in memory
C18_ReconnectedWithBreakpoint ==
  /\ alive /\ connected /\ lastPkt = "none"
  /\ \E a \in DOMAIN mpHash : mem[a] = ATDSP_BKPT_INSTR

\* C19: z0 for an address with no BP_MEMORY entry is answered OK and writes
\* nothing to target memory and nothing to the matchpoint table.
C19_RemoveAbsentIsNoOp ==
  [][\A a \in BpAddrs :
       (~MpHash_lookup(mpHash, a) /\ rspRemoveMatchpoint(TRUE, BP_MEMORY, a))
         => (replies' = <<"OK">> /\ mem' = mem /\ mpHash' = mpHash)]_vars

\* a z0 was repeated for the address of a pair and answered OK
C19_RemovedTwice ==
  /\ pair.stage = 3 /\ pair.r2 = "OK"
  /\ ~MpHash_lookup(mpHash, pair.a)

\* a packet of m, M, X, p, P, H, Z or z whose fields the handler cannot
\* parse: sscanf does not convert them, or the ':' before the data of an M
\* or X is missing.  Each of these handlers leaves lastPkt = "malformed".
MalformedPacket ==
  \/ rspReadMem(FALSE, TRUE)
  \/ \E a \in BpAddrs, v \in SampleOpcodes : rspWriteMem(FALSE, a, v, TRUE)
  \/ \E a \in BpAddrs, v \in SampleOpcodes : rspWriteMemBin(FALSE, a, v, TRUE)
  \/ \E matches \in BOOLEAN : rspWriteMem_noData(matches)
  \/ \E dies \in BOOLEAN : rspWriteMemBin_noData(dies)
  \/ rspReadReg(FALSE, TRUE)
  \/ \E v \in StepAddrs : rspWriteReg(FALSE, v)
  \/ rspSetThread(FALSE, TRUE)
  \/ \E type \in MpTypes, a \in BpAddrs, ok \in BOOLEAN,
        junk \in SampleOpcodes \cup {mem[x] : x \in BpAddrs} :
       rspInsertMatchpoint(FALSE, type, a, ok, junk)
  \/ \E type \in MpTypes, a \in BpAddrs : rspRemoveMatchpoint(FALSE, type, a)

\* C20: a packet whose fields its handler cannot parse is answered with
\* exactly E01; target memory, the registers, the matchpoint table and the
\* running flag are unchanged, the connection stays open and the next packet
\* is read.
C20_MalformedAnsweredE01 ==
  [][(GetPkt /\ lastPkt' = "malformed" /\ MalformedPacket)
       => /\ replies' = <<"E01">>
          /\ mem' = mem /\ pc' = pc /\ halted' = halted
          /\ mpHash' = mpHash
          /\ fIsTargetRunning' = fIsTargetRunning
          /\ connected' /\ alive' /\ pktLive']_vars

\* a handler whose access to the target fails: the read of the opcode in
\* Z0, a burst read in g, m or p, a burst write in M or X
BusAccessFails ==
  \/ \E a \in BpAddrs, junk \in SampleOpcodes :
       rspInsertMatchpoint(TRUE, BP_MEMORY, a, FALSE, junk)
  \/ rspReadMem(TRUE, FALSE)
  \/ rspReadReg(TRUE, FALSE)
  \/ \E fails \in 1 .. 3 : rspReadAllRegs(fails)
  \/ \E a \in BpAddrs, v \in SampleOpcodes : rspWriteMem(TRUE, a, v, FALSE)
  \/ \E a \in BpAddrs, v \in SampleOpcodes : rspWriteMemBin(TRUE, a, v, FALSE)

\* C21: whenever a target bus access performed by a handler fails, the
\* handler's reply is E01, the connection is not closed, and nothing derived
\* from the failed access is recorded in the matchpoint table.
C21_BusFailureAnsweredE01 ==
  [][(GetPkt /\ BusAccessFails)
       => /\ replies' = <<"E01">>
          /\ connected' /\ alive'
          /\ mpHash' = mpHash]_vars

\* C22: free_space, an unsigned integer, never exceeds its initial value,
\* the heap capacity, after any sequence of e_shm_alloc, e_shm_attach and
\* e_shm_release calls; it never wraps around below zero.
C22_FreeSpaceWithinCapacity == free_space <= HeapCap

\* an e_shm_alloc that was refused for want of space returns NULL and
\* leaves the table as it is; no call moves next_free_offset down
RefusedAllocChangesNothing ==
  /\ \A p \in Procs :
       (proc[p].err = "ENOMEM" /\ proc[p].pc = "cs" /\ e_shm_alloc_exit(p))
         => /\ proc'[p].ret = "NULL" /\ proc'[p].err = "ENOMEM"
            /\ regions' = regions
            /\ free_space' = free_space
            /\ next_free_offset' = next_free_offset
  /\ next_free_offset' >= next_free_offset

\* C23: e_shm_alloc(name, size) with size greater than the current
\* free_space returns NULL with errno ENOMEM and leaves every region record,
\* free_space and next_free_offset unchanged; next_free_offset never
\* decreases.  The request is one that gets as far as the size check: a name
\* that a valid region has is answered EEXIST before it.
C23_AllocBeyondFreeSpaceRefused ==
  [][/\ \A p \in Procs, n \in Names, sz \in 1 .. MaxSize :
          (sz > free_space /\ proc'[p].pc = "cs"
             /\ shm_lookup_region(n) = 0
             /\ e_shm_alloc_enter(p, n, sz))
            => proc'[p].err = "ENOMEM"
     /\ RefusedAllocChangesNothing]_vars

\* the step sends a stop packet
SendsStopReply == \E i \in 1 .. Len(replies') : IsStopPacket(replies'[i])

\* C24: immediately after every stop reply sent to the client (by continue,
\* step, suspend, a trap, '?', 'C', vAttach or vRun) and after every detach
\* or kill ('D', 'k'), fIsTargetRunning is false.
C24_StopDetachKillClearRunning ==
  [][(IF SendsStopReply THEN TRUE
      ELSE GetPkt /\ (rspClientRequest_detach \/ rspClientRequest_kill))
       => ~fIsTargetRunning']_vars

\* a '?', vAttach or vRun was answered S05 and the flag is clear
C24_StopReplyToCommand ==
  /\ replies = <<"S05">> /\ lastPkt = "command" /\ pc # 0
  /\ connected /\ ~fIsTargetRunning

\* the fields of the decoded opcode as the instruction set names them
Low4 == stepDec.opcode % 16
Low3 == stepDec.opcode % 8
Low2 == stepDec.opcode % 4
Bit3 == (stepDec.opcode \div 8) % 2
Low9 == stepDec.opcode % 512

\* the opcode classes that take a second halfword
LongOpcode ==
  \/ Low4 = 15
  \/ Low3 = 3 /\ Bit3 = 1
  \/ (Low3 = 4 \/ Low2 = 1) /\ Bit3 = 1
  \/ Low3 = 0 /\ Bit3 = 1

\* C25: for every 16-bit opcode value is32BitsInstr is true exactly when
\* low4 = 0xF, or low3 = 3 and bit3 = 1, or (low3 = 4 or low2 = 1) and
\* bit3 = 1, or low3 = 0 and bit3 = 1; and the sequential breakpoint address
\* of the step is addr + 4 when it is true and addr + 2 otherwise (an
\* address being a word, the sum is taken in the word).
C25_LongOpcodesTakeFourBytes ==
  stepDec.ran
    => /\ stepDec.is32 = LongOpcode
       /\ stepDec.bkpt_addr
            = (stepDec.pc + (IF LongOpcode THEN 4 ELSE 2)) % WordMod

\* a long branch was decoded and the breakpoint put four bytes on
C25_LongBranchDecoded ==
  /\ stepDec.ran /\ stepDec.pc = 512
  /\ Low4 = 8 /\ stepDec.is32
  /\ stepDec.bkpt_addr = 516

\* the displacement of the decoded branch as a signed number
SignExt(v, bits) == IF v >= 2 ^ (bits - 1) THEN v - 2 ^ bits ELSE v
BranchDisp ==
  IF LongOpcode
  THEN SignExt(stepDec.ext * 256 + stepDec.opcode \div 256, 24)
  ELSE SignExt(stepDec.opcode \div 256, 8)

\* the address the decoded instruction can pass control to
NextFlow ==
  LET fall == (stepDec.pc + (IF LongOpcode THEN 4 ELSE 2)) % WordMod
      rn == (stepDec.opcode \div 1024) % 8
      rnExt == (stepDec.ext \div 1024) % 8
  IN CASE Low3 = 0 -> (stepDec.pc + 2 * BranchDisp) % WordMod
       [] Low9 = 466 -> stepDec.iret
       [] Low9 \in {322, 338} -> DecodeGpr[rn]
       [] Low9 \in {335, 351} -> DecodeGpr[rnExt * 8 + rn]
       [] OTHER -> fall

\* C26: for every PC and every opcode and extension word the address of the
\* change-of-flow breakpoint is, for an immediate branch (low3 = 0),
\* PC + 2 * signext(disp) modulo the word, disp being opcode[15:8] for a
\* 16-bit encoding and ext[15:0]:opcode[15:8] for a 32-bit one; for RTI the
\* IRET register; for a short register jump (low9 0x142, 0x152) the register
\* op[12:10]; for a long one (0x14F, 0x15F) the register
\* (ext[12:10] << 3) | op[12:10]; otherwise the fall-through address.
C26_ChangeOfFlowAddress ==
  stepDec.ran => stepDec.bkpt_jump_addr = NextFlow

\* a short branch backwards was decoded: its target lies below the PC
C26_BackwardBranchDecoded ==
  /\ stepDec.ran /\ stepDec.pc = 512
  /\ Low3 = 0 /\ ~stepDec.is32 /\ stepDec.opcode \div 256 = 254
  /\ stepDec.bkpt_jump_addr = 508

\* after the step the vector table holds what it held before it, except
\* where the client had a breakpoint; the reset vector got no breakpoint
IvtLeftAsFound ==
  /\ 0 \notin ivt'.entries
  /\ alive' => \A a \in IvtAddrs :
                 ~MpHash_lookup(mpHash, a) => mem'[a] = mem[a]

FileIOPending == replies # <<>> /\ LastReply = "F" /\ ~fIsTargetRunning

\* C28 as stated: from the moment the target is resumed by a continue, or a
\* File-I/O request is sent, until the stop reply is sent or the F reply is
\* consumed, the dispatcher reads and dispatches no command packet (such as
\* 'm', 'g' or 'Z').
C28_NoCommandInRoundTrip ==
  [][(IF fIsTargetRunning THEN TRUE ELSE FileIOPending)
       => lastPkt' \notin {"command", "malformed"}]_vars

\* C28 for the resumed target: while the running flag is set the dispatcher
\* only polls the core or, on a break byte, suspends it.
C28_NoCommandWhileRunning ==
  [][fIsTargetRunning
       => \/ \E o \in {pc', AAdd(pc', 2)} \cap HaltAddrs, stdio \in Stdio :
               rspServer_poll(o, stdio)
          \/ \E already \in {dbg' = <<>>}, ok \in {halted'}, atIdle \in BOOLEAN,
                p \in {pc', AAdd(pc', 2)} \cap HaltAddrs, exStat \in ExStats :
               rspSuspend(already, ok, p, exStat, atIdle)]_vars

\* a poll found the resumed target halted on a breakpoint and reported it
C28_StoppedWhilePolled ==
  /\ lastPkt = "resume" /\ dbg = <<>>
  /\ halted /\ ~fIsTargetRunning /\ connected
  /\ replies = <<"S05">> /\ mem[pc] = ATDSP_BKPT_INSTR

\* the stop packet the claim gives for a value of STATUS[18:16]: SIGBUS for
\* E_UNALIGMENT_LS, SIGFPE for E_FPU, SIGILL for E_UNIMPL, SIGABRT for any
\* other value but zero, and TRAP for zero
ExceptionStopPacket(exStat) ==
  CASE exStat = E_UNALIGMENT_LS -> "S0a"
    [] exStat = E_FPU -> "S08"
    [] exStat = E_UNIMPL -> "S04"
    [] exStat = 0 -> "S05"
    [] OTHER -> "S06"

\* C29: for every value of STATUS[18:16] the stop signal of a successful
\* suspend, and of a step requested in an exception state, is SIGBUS for
\* E_UNALIGMENT_LS, SIGFPE for E_FPU, SIGILL for E_UNIMPL, SIGABRT for any
\* other non-zero value, and TRAP when the field is zero; when the field is
\* non-zero the step plants no breakpoint and does not resume the target.
C29_ExceptionSignals ==
  [][/\ (fIsTargetRunning /\ halted' /\ lastPkt' = lastPkt)
          => \A exStat \in 0 .. 7, atIdle \in BOOLEAN,
                p \in {pc', AAdd(pc', 2)} :
               rspSuspend(dbg' = <<>>, TRUE, p, exStat, atIdle)
                 => replies' = Append(replies, ExceptionStopPacket(exStat))
     /\ (GetPkt /\ halted /\ lastPkt' = "resume")
          => \A exStat \in 0 .. 7 :
               rspStep_exception(exStat)
                 => /\ replies' = <<ExceptionStopPacket(exStat)>>
                    /\ mem' = mem /\ mpHash' = mpHash /\ pc' = pc
                    /\ ivt'.entries = {}
                    /\ dbg' = <<>> /\ ~fIsTargetRunning']_vars

\* a step in an exception state was answered with SIGFPE
C29_StepAnsweredFpe ==
  /\ lastPkt = "resume" /\ replies = <<"S08">>
  /\ halted /\ ~fIsTargetRunning /\ dbg = <<>>

\* the stop reply for SIGINT (TARGET_SIGNAL_INT is 2)
SigintStopPacket == "S02"

\* C30: when the client's File-I/O reply carries the Ctrl-C flag after its
\* error code (F<result>,<errno>,C), the server reports a SIGINT stop to the
\* client for that round trip and does not silently resume the target: the
\* reply to that packet is the SIGINT stop reply, DEBUGCMD is not written
\* with RUN and the running flag stays false.
C30_CtrlCFlagReportsSigint ==
  [][GetPkt =>
       \A result_io \in FioResults, host_respond_error_code \in FioErrors :
         rspClientRequest_fileio(2, result_io, host_respond_error_code, TRUE)
           => /\ replies' = <<SigintStopPacket>>
              /\ dbg' # <<"RUN">>
              /\ ~fIsTargetRunning']_vars

\* the halt at o is one on a TRAP whose number is in S
HaltsOnTrapIn(o, S) ==
  /\ mem[ASub(o, 2)] # ATDSP_BKPT_INSTR
  /\ getfield(StoppedInstr(o), 9, 0) = ATDSP_TRAP_INSTR
  /\ getfield(StoppedInstr(o), 15, 10) \in S

\* the continue engine found the core halted at o
ContinueFinds(o) ==
  IF fIsTargetRunning THEN \E stdio \in Stdio : rspServer_poll(o, stdio)
  ELSE \E stdio \in Stdio : rspContinue(pc, o, stdio)

\* what the continue engine had sent and written before it saw the halt:
\* the poll adds to the replies of the session and writes nothing, the 'c'
\* packet starts from none and has resumed a halted core
SentBeforeHalt == IF fIsTargetRunning THEN replies ELSE <<>>
WrittenBeforeHalt == IF ~fIsTargetRunning /\ halted THEN <<"RUN">> ELSE <<>>

\* C31: when the target halts on a TRAP numbered 3 (EXIT), 4 (PASS) or 5
\* (FAIL) the server sends no F request, writes no RUN into DEBUGCMD and
\* sends exactly one stop reply, S03 (QUIT) for EXIT and FAIL and S05 (TRAP)
\* for PASS, with the running flag false.  For the other handled numbers
\* (0, 1, 2, 6, 7) no stop reply is sent and the target is resumed: at once
\* when trap 7 is served on the terminal, else by the F reply that ends the
\* round trip.
C31_ExitPassFailStop ==
  [][/\ \A n \in {3, 4, 5} :
          (HaltsOnTrapIn(pc', {n}) /\ ContinueFinds(pc'))
            => /\ replies' = Append(SentBeforeHalt,
                                    IF n = 4 THEN "S05" ELSE "S03")
               /\ dbg' = WrittenBeforeHalt
               /\ ~fIsTargetRunning' /\ halted'
     /\ (HaltsOnTrapIn(pc', {0, 1, 2, 6, 7}) /\ ContinueFinds(pc'))
          => /\ StopReplies(replies') = StopReplies(SentBeforeHalt)
             /\ IF fIsTargetRunning'
                THEN /\ dbg' = Append(WrittenBeforeHalt, "RUN")
                     /\ replies' = SentBeforeHalt
                     /\ HaltsOnTrapIn(pc', {7})
                ELSE /\ dbg' = WrittenBeforeHalt
                     /\ Len(replies') = Len(SentBeforeHalt) + 1
                     /\ halted'
     /\ (GetPkt /\ lastPkt = "resume" /\ halted
           /\ HaltsOnTrapIn(pc, {0, 1, 2, 6, 7}))
          => \A fields \in 0 .. 2, result_io \in FioResults,
                host_respond_error_code \in FioErrors :
               rspClientRequest_fileio(fields, result_io,
                                       host_respond_error_code, FALSE)
                 => dbg' = <<"RUN">> /\ fIsTargetRunning' /\ ~halted']_vars

\* a 'c' ran the core into a TRAP 5 and QUIT was reported
C31_StoppedOnFail ==
  /\ HaltsOnTrapIn(pc, {5}) /\ halted /\ ~fIsTargetRunning
  /\ lastPkt = "resume" /\ replies = <<"S03">>

\* the dispatcher serves an 's' packet: any of the ways through
\* rspStep (addr, except)
StepPacket ==
  \/ rspStep_notHalted
  \/ \E exStat \in ExStats : rspStep_exception(exStat)
  \/ \E e \in IvtEntries \cup {NoHalt} : rspStep_idle(e)
  \/ \E addr \in StepAddrs \cup {pc}, stdio \in Stdio :
       rspStep_trap(addr, stdio)
  \/ rspStep_pcMismatch
  \/ \E addr \in StepAddrs \cup {pc}, B \in {pc', ASub(pc', 2)} :
       rspStep(addr, B)

\* the server has sent E01 and terminated with target memory and the
\* matchpoint table as they were
FatalE01 ==
  /\ replies' = <<"E01">> /\ ~alive'
  /\ mem' = mem /\ mpHash' = mpHash

\* C32: a step requested while the target is not halted, and a step for
\* which the PC read back after the write differs from the step address, is
\* fatal: the server sends E01 and terminates, having planted no breakpoint
\* in target memory and added or removed no matchpoint-table entry.
C32_StepAssertionsFatal ==
  [][(GetPkt /\ lastPkt' = "resume")
       => /\ (~halted /\ StepPacket) => FatalE01
          /\ rspStep_pcMismatch => FatalE01]_vars

\* a step was refused as fatal while a breakpoint of the client was planted
C32_RefusedWithBreakpointPlanted ==
  /\ ~alive /\ replies = <<"E01">> /\ lastPkt = "resume"
  /\ \E a \in BpAddrs : MpHash_lookup(mpHash, a) /\ mem[a] = ATDSP_BKPT_INSTR

\* C33: every path of e_shm_alloc, e_shm_attach and e_shm_release that
\* acquires the table semaphore releases it exactly once before returning,
\* so no process waits for ever in sem_wait: a semaphore that is taken is
\* held by a process that is in its critical section and will post it, and
\* no semaphore is posted beyond its initial value of 1.
C33_AcquireReleasePaired ==
  \A s \in 1 .. MaxSems :
    s < semNext =>
      /\ semVal[s] <= 1
      /\ semVal[s] = 0 => \E p \in Procs : InCritical(p) /\ SemOf(p) = s

\* the bytes a sequence of hex digits stands for, lowest address first
BytesOfHex(digits) ==
  LET val(c) == IF c >= 97 THEN c - 87 ELSE c - 48
  IN [i \in 1 .. Len(digits) \div 2 |->
        16 * val(digits[2 * i - 1]) + val(digits[2 * i])]

\* the last packet is, or directly follows, an M A,L:<hex(B)> with L >= 1
\* and L pairs of digits that the target bus accepted
WroteHex ==
  /\ argPkt.wr.len >= 1 /\ argPkt.wr.ok
  /\ Len(argPkt.wr.sent) = 2 * argPkt.wr.len

\* C34: the packet M A,L:<hex(B)> writes the L bytes of B, decoded from the
\* pairs of hex digits, lowest address first, to target memory at A and is
\* answered OK; an m A,L that follows returns hex(B).
C34_WriteReadRoundTrip ==
  /\ (argPkt.kind = "M" /\ WroteHex)
       => /\ argPkt.status = "OK"
          /\ \A i \in 1 .. argPkt.wr.len :
               coreMem[argPkt.wr.addr + i - 1] = BytesOfHex(argPkt.wr.sent)[i]
  /\ (argPkt.kind = "m" /\ argPkt.ok /\ WroteHex
        /\ argPkt.num = argPkt.wr.addr /\ argPkt.len = argPkt.wr.len)
       => argPkt.status = "data" /\ argPkt.data = argPkt.wr.sent

\* C35: a 'p' or 'P' packet whose register number, parsed as 32-bit
\* hexadecimal into a signed int, names no register of the GPR, status or
\* DMA bank (it is outside 0 .. ATDSP_TOTAL_NUM_REGS - 1, negative values
\* included) is answered E01 and no register of the target is read or
\* written.
C35_UnknownRegisterRefused ==
  (argPkt.kind \in {"p", "P"}
     /\ ToInt(argPkt.num) \notin 0 .. ATDSP_TOTAL_NUM_REGS - 1)
    => argPkt.status = "E01" /\ argPkt.bank = "none"

\* what the continue engine sent from the moment it saw the core halted
SentOnHalt == SubSeq(replies', Len(SentBeforeHalt) + 1, Len(replies'))

\* C36: whenever the continue loop observes the target halted, then before
\* the server next waits for a client packet it has done exactly one of:
\* sent a stop reply, sent a File-I/O F request built for this trap, or
\* resumed the target; for every trap number 0 .. 63 and, for trap 7 without
\* a terminal, every sub-function in r3.
C36_HaltAlwaysAnswered ==
  [][(\E o \in HaltAddrs : ContinueFinds(o))
       => IF fIsTargetRunning'
          THEN SentOnHalt = <<>> /\ dbg' = Append(WrittenBeforeHalt, "RUN")
          ELSE /\ dbg' = WrittenBeforeHalt
               /\ Len(SentOnHalt) = 1
               /\ IF IsStopPacket(SentOnHalt[1]) THEN TRUE
                  ELSE SentOnHalt[1] = "F"]_vars

\* C37: the dispatcher's packet buffer is live in every state in which it
\* is read or written: whatever packets the client has sent, an unrecognised
\* 'Q' among them, every step the server takes for a connected client, each
\* of which reads a packet into the buffer or packs a reply into it, finds
\* the buffer not deleted.
C37_PacketBufferLive ==
  [][(alive /\ connected) => pktLive]_vars

\* C38: observed outside a critical section, every region with valid = 1
\* has refcnt >= 1; the refcnt a release writes is one less than the refcnt
\* it read, which is never 0 (no wrap below zero); and e_shm_release of a
\* name that no valid region has returns E_ERR and changes no field of the
\* table.
C38_ValidRegionsReferenced ==
  [][/\ (\A p \in Procs : ~InCritical(p)')
          => \A i \in Slots :
               regions'[i].valid = 1 => regions'[i].refcnt >= 1
     /\ \A p \in Procs :
          e_shm_release_exit(p)
            => IF proc[p].idx = 0
               THEN /\ proc'[p].ret = "E_ERR"
                    /\ regions' = regions /\ free_space' = free_space
                    /\ next_free_offset' = next_free_offset
               ELSE /\ proc[p].tmp >= 1
                    /\ regions'[proc[p].idx].refcnt = proc[p].tmp - 1]_vars

\* C39: in every reachable state of the table the heap byte ranges
\* [offset, offset + size) of two distinct valid regions are disjoint, and
\* every valid region lies inside the heap: offset + size is at most
\* sizeof(table) plus the heap capacity.
C39_RegionsDisjointInHeap ==
  \A i \in Slots :
    regions[i].valid = 1
      => /\ regions[i].offset + regions[i].size <= TableSize + HeapCap
         /\ \A j \in Slots \ {i} :
              regions[j].valid = 1
                => \/ regions[i].offset + regions[i].size <= regions[j].offset
                   \/ regions[j].offset + regions[j].size <= regions[i].offset

\* C40: the target is resumed by an 'F' packet only as the completion of an
\* outstanding File-I/O request: an 'F' packet received when no F request
\* is outstanding, or one whose fields cannot be parsed, does not write
\* DEBUGCMD := RUN, does not set the running flag, and does not modify r0
\* or r3.
C40_FReplyOnlyCompletesRequest ==
  [][GetPkt =>
       \A fields \in 0 .. 2, result_io \in FioResults,
          host_respond_error_code \in FioErrors, ctrlC \in BOOLEAN :
         (/\ IF FileIOPending THEN fields = 0 ELSE TRUE
          /\ rspClientRequest_fileio(fields, result_io,
                                     host_respond_error_code, ctrlC))
           => /\ \A k \in 1 .. Len(dbg') : dbg'[k] # "RUN"
              /\ fIsTargetRunning' = fIsTargetRunning
              /\ fioWrites'.r0 = NotWritten
              /\ fioWrites'.r3 = NotWritten]_vars

=============================================================================
